---------------------------- MODULE Spec2Model ----------------------------
(***************************************************************************)
(* A model of cubefit/fitting.py: the linear profiler                      *)
(* (determine_sky_and_sn), the sky estimators, the profiled chi-square     *)
(* objectives, the finite-difference Hessian and the outer drivers.        *)
(*                                                                         *)
(* Arrays are functions.  A cube is [Waves -> [Pix -> Int]]: the code only *)
(* ever sums over axis=(1, 2), so the two spatial axes are flattened into  *)
(* one pixel index.  Floating point numbers are modelled as exact          *)
(* rationals <<numerator, denominator>>; rounding is not modelled.         *)
(***************************************************************************)
EXTENDS Integers, Sequences, FiniteSets, TLC

VARIABLES
    prog,       \* which function of fitting.py this behaviour exercises
    data,       \* data[w][p]    (cube.data / data)
    weight,     \* weight[w][p]  (cube.weight / weight), >= 0
    galmodel,   \* galmodel[w][p]: galaxy scene on the data grid
    snmodel,    \* snmodel[w][p]: PSF on the data grid
    out,        \* what the call returned (or raised)
    altw,       \* wavelength whose slice the second call altered (0: none)
    out2,       \* what the second call, on the altered cube, returned
    nepochs,    \* len(datas)
    allctrs,    \* [yctr[0], xctr[0], ..., snyctr, snxctr], indexed from 0
    chisqtab,   \* per epoch, the profiled chi-square as a function of position
    npix,       \* guess_sky's npix
    clip,       \* guess_sky_clipping's clip
    maxiter,    \* guess_sky_clipping's maxiter
    npass,      \* passes of the clipping loop executed so far
    ended,      \* "no", or how the clipping loop ended: "break" | "maxiter"
    wcopy,      \* guess_sky_clipping's local weight = np.copy(cube.weight)
    var,        \* guess_sky_clipping's var
    avg,        \* guess_sky_clipping's avg (a masked array)
    mask,       \* guess_sky_clipping's mask (a masked array of booleans)
    oldmask,    \* guess_sky_clipping's oldmask
    wused,      \* the weights the last executed pass averaged with
    pc,         \* where the exercised driver stands
    ctrs0,      \* the driver's initial positions (allctrs0 / ctr0 / ctrs)
    yxabs,      \* what yxbounds returned: <<<<yminabs, ymaxabs>>, <<xminabs, xmaxabs>>>>
    called,     \* the function the optimizer called last
    trial,      \* the parameter vector it called that function with
    ntrials,    \* calls the optimizer has made so far
    evalpos,    \* <<epoch, y, x>>: where the last step evaluated the forward model
    res,        \* what the optimizer returned
    checked,    \* whether the driver examined the optimizer's warnflag
    galaxy,     \* galaxy[w][p]: the array behind galparams.reshape(galaxy0.shape)
    datas,      \* datas[i][w][p], one cube per epoch
    weights,    \* weights[i][w][p]
    atms,       \* atms[i]: the forward model of epoch i
    regpenalty, \* the regularization callable: what it hands back
    ncalls      \* calls of the objective made so far

cubeVars == <<data, weight, galmodel, snmodel>>
pssmVars == <<nepochs, allctrs, chisqtab>>
clipVars == <<clip, maxiter, npass, ended, wcopy, var, avg, mask, oldmask, wused>>
drvVars == <<pc, ctrs0, yxabs, called, trial, ntrials, evalpos, res, checked>>
objVars == <<galaxy, datas, weights, atms, regpenalty, ncalls>>

\* The variables of the position fit when another function is exercised.
IdlePssm == nepochs = 0 /\ allctrs = <<>> /\ chisqtab = <<>>

\* None
None == [none |-> TRUE]

\* The variables of the sky estimators when another function is exercised.
IdleGuess == npix = 0
IdleClip ==
    /\ clip = 0 /\ maxiter = 0 /\ npass = 0 /\ ended = "no"
    /\ wcopy = None /\ var = None /\ avg = None
    /\ mask = None /\ oldmask = None /\ wused = None

\* The variables of the drivers when another function is exercised.
IdleDrv ==
    /\ pc = "idle" /\ ctrs0 = <<>> /\ yxabs = <<>> /\ called = "none"
    /\ trial = None /\ ntrials = 0 /\ evalpos = {} /\ res = None
    /\ checked = FALSE

\* The variables of the galaxy objectives when another function is exercised.
IdleObj ==
    /\ galaxy = None /\ datas = <<>> /\ weights = <<>> /\ atms = <<>>
    /\ regpenalty = None /\ ncalls = 0

\* What the functions that work on one cube leave alone.
notCubeVars == <<pssmVars, npix, clipVars, drvVars, objVars>>
IdleNotCube == IdlePssm /\ IdleGuess /\ IdleClip /\ IdleDrv /\ IdleObj

vars == <<prog, cubeVars, out, altw, out2, notCubeVars>>

----------------------------------------------------------------------------
(* Bounds of the model *)

Waves == {1, 2}
Pix == {1, 2}
MaxWeight == 1
DataVals == {0, 1}
GalVals == {0, 1}
PsfVals == {0, 1}

Slices(S) == [Pix -> S]
Cubes(S) == [Waves -> Slices(S)]

----------------------------------------------------------------------------
(* Exact rationals standing for the floats *)

Abs(n) == IF n < 0 THEN -n ELSE n

RECURSIVE Gcd(_, _)
Gcd(a, b) == IF b = 0 THEN a ELSE Gcd(b, a % b)

\* n / d for d # 0, in lowest terms with a positive denominator
Rat(n, d) ==
    LET g == Gcd(Abs(n), Abs(d))
        s == IF d < 0 THEN -1 ELSE 1
    IN  <<(s * n) \div g, (s * d) \div g>>

RatInt(n) == <<n, 1>>
RatAdd(a, b) == Rat(a[1] * b[2] + b[1] * a[2], a[2] * b[2])
RatSub(a, b) == Rat(a[1] * b[2] - b[1] * a[2], a[2] * b[2])
RatMul(a, b) == Rat(a[1] * b[1], a[2] * b[2])
RatDiv(a, b) == Rat(a[1] * b[2], a[2] * b[1])

\* sum of f[p] over the pixels of one slice: .sum(axis=(1, 2))
RECURSIVE SumOver(_, _)
SumOver(f, S) ==
    IF S = {} THEN 0
    ELSE LET p == CHOOSE q \in S : TRUE
         IN  f[p] + SumOver(f, S \ {p})

SumPix(f) == SumOver(f, Pix)

----------------------------------------------------------------------------
(* determine_sky_and_sn (fitting.py 142-205) *)

A11(wt, sn) == [w \in Waves |-> SumPix([p \in Pix |-> wt[w][p] * sn[w][p] * sn[w][p]])]
\* A12 without its minus sign
A12_positive(wt, sn) == [w \in Waves |-> SumPix([p \in Pix |-> wt[w][p] * sn[w][p]])]

A12(wt, sn) == [w \in Waves |-> SumPix([p \in Pix |-> (0 - wt[w][p]) * sn[w][p]])]
\* weight.sum() over the whole cube
A22_allWaves(wt) ==
    [w \in Waves |-> SumOver([v \in Waves |-> SumPix(wt[v])], Waves)]

\* A22 = weight.sum(axis=(1, 2))
A22(wt) == [w \in Waves |-> SumPix(wt[w])]

\* denom = A11*A22 - A12*A21, with A21 = A12
denom(wt, sn) ==
    LET a11 == A11(wt, sn)
        a12 == A12(wt, sn)
        a21 == a12
        a22 == A22(wt)
    IN  [w \in Waves |-> a11[w] * a22[w] - a12[w] * a21[w]]

\* mask = denom == 0.0
NullDenom(wt, sn) ==
    LET dn == denom(wt, sn)
    IN  [w \in Waves |-> dn[w] = 0]

\* the consistency check raising for every null denom
NullDenomAny(wt, sn) == \E w \in Waves : NullDenom(wt, sn)[w]

\* the consistency check left out
NullDenomIgnored(wt, sn) == FALSE

\* not np.all(A22[mask] == 0.0)
NullDenomWithWeight(wt, sn) ==
    LET msk == NullDenom(wt, sn)
        a22 == A22(wt)
    IN  \E w \in Waves : msk[w] /\ a22[w] # 0

\* sky[mask] = 0.0; sn[mask] = 0.0
ZeroMasked(v, msk) == [w \in Waves |-> IF msk[w] THEN RatInt(0) ELSE v[w]]

\* The body of determine_sky_and_sn after the consistency check.
SkyAndSn(gal, sn, d, wt) ==
    LET a11 == A11(wt, sn)
        a12 == A12(wt, sn)
        a21 == a12
        a22 == A22(wt)
        msk == NullDenom(wt, sn)
        dn0 == denom(wt, sn)
        \* denom[mask] = 1.0
        dn == [w \in Waves |-> IF msk[w] THEN 1 ELSE dn0[w]]
        wd == [w \in Waves |-> SumPix([p \in Pix |-> wt[w][p] * d[w][p]])]
        wdsn == [w \in Waves |-> SumPix([p \in Pix |-> wt[w][p] * d[w][p] * sn[w][p]])]
        wgal == [w \in Waves |-> SumPix([p \in Pix |-> wt[w][p] * gal[w][p]])]
        wgalsn == [w \in Waves |-> SumPix([p \in Pix |-> wt[w][p] * gal[w][p] * sn[w][p]])]
        b_sky == [w \in Waves |-> Rat(wd[w] * a11[w] + wdsn[w] * a12[w], dn[w])]
        c_sky == [w \in Waves |-> Rat(wgal[w] * a11[w] + wgalsn[w] * a12[w], dn[w])]
        b_sn == [w \in Waves |-> Rat(wd[w] * a21[w] + wdsn[w] * a22[w], dn[w])]
        c_sn == [w \in Waves |-> Rat(wgal[w] * a21[w] + wgalsn[w] * a22[w], dn[w])]
        sky == [w \in Waves |-> RatSub(b_sky[w], c_sky[w])]
        snv == [w \in Waves |-> RatSub(b_sn[w], c_sn[w])]
    IN  [status |-> "ok", sky |-> ZeroMasked(sky, msk), sn |-> ZeroMasked(snv, msk)]

determine_sky_and_sn(gal, sn, d, wt) ==
    IF NullDenomWithWeight(wt, sn)
    THEN [status |-> "ValueError"]
    ELSE SkyAndSn(gal, sn, d, wt)

----------------------------------------------------------------------------
(* Calls of determine_sky_and_sn on bounded cubes *)

NoOut == [status |-> "none"]

InitSkySn ==
    /\ prog = "determine_sky_and_sn"
    /\ data \in Cubes(DataVals)
    /\ weight \in Cubes(0..MaxWeight)
    /\ galmodel \in Cubes(GalVals)
    /\ snmodel \in Cubes(PsfVals)
    /\ out = NoOut
    /\ altw = 0
    /\ out2 = NoOut
    /\ IdleNotCube

\* sky, sn = determine_sky_and_sn(gal, psf, data, weight)
CallSkySn ==
    /\ prog = "determine_sky_and_sn"
    /\ out = NoOut
    /\ out' = determine_sky_and_sn(galmodel, snmodel, data, weight)
    /\ UNCHANGED <<prog, cubeVars, altw, out2, notCubeVars>>

\* A second call on a cube that differs from the first one in one value (data,
\* galaxy scene or psf) of one pixel of slice w, a slice that carries no weight.
\* Every bounded cube is an initial state, so chains of such single changes
\* cover every change of the slice's values.
CallSkySnAltered ==
    /\ prog = "determine_sky_and_sn"
    /\ out # NoOut
    /\ altw = 0
    /\ \E w \in Waves, p \in Pix :
          /\ \A q \in Pix : weight[w][q] = 0
          /\ altw' = w
          /\ \/ \E d \in DataVals \ {data[w][p]} :
                  out2' = determine_sky_and_sn(galmodel, snmodel,
                                               [data EXCEPT ![w][p] = d], weight)
             \/ \E g \in GalVals \ {galmodel[w][p]} :
                  out2' = determine_sky_and_sn([galmodel EXCEPT ![w][p] = g],
                                               snmodel, data, weight)
             \/ \E s \in PsfVals \ {snmodel[w][p]} :
                  out2' = determine_sky_and_sn(galmodel,
                                               [snmodel EXCEPT ![w][p] = s],
                                               data, weight)
    /\ UNCHANGED <<prog, cubeVars, out, notCubeVars>>

NextSkySn == CallSkySn \/ CallSkySnAltered

SpecSkySn == InitSkySn /\ [][NextSkySn]_vars

----------------------------------------------------------------------------
(* Claims about determine_sky_and_sn *)

ZeroSlice(w) == \A p \in Pix : weight[w][p] = 0

\* residual data - gal of one pixel
Resid(w, p) == data[w][p] - galmodel[w][p]

SumW(w) == SumPix(weight[w])
SumWP(w) == SumPix([p \in Pix |-> weight[w][p] * snmodel[w][p]])
SumWPP(w) == SumPix([p \in Pix |-> weight[w][p] * snmodel[w][p] * snmodel[w][p]])
SumWR(w) == SumPix([p \in Pix |-> weight[w][p] * Resid(w, p)])
SumWRP(w) == SumPix([p \in Pix |-> weight[w][p] * Resid(w, p) * snmodel[w][p]])

\* C3: for every wavelength slice whose total weight is > 0, the returned
\* (sky, sn) solves the two normal equations of the weighted least-squares
\* problem: sky*Sum(w) + sn*Sum(w*psf) = Sum(w*(data-gal)) and
\* sky*Sum(w*psf) + sn*Sum(w*psf^2) = Sum(w*(data-gal)*psf).
C3_NormalEquations ==
    (prog = "determine_sky_and_sn" /\ out.status = "ok") =>
        \A w \in Waves :
            SumW(w) > 0 =>
                /\ RatAdd(RatMul(out.sky[w], RatInt(SumW(w))),
                          RatMul(out.sn[w], RatInt(SumWP(w)))) = RatInt(SumWR(w))
                /\ RatAdd(RatMul(out.sky[w], RatInt(SumWP(w))),
                          RatMul(out.sn[w], RatInt(SumWPP(w)))) = RatInt(SumWRP(w))

C3_Witness ==
    /\ prog = "determine_sky_and_sn"
    /\ out.status = "ok"
    /\ \E w \in Waves :
          /\ SumW(w) > 0
          /\ out.sky[w][1] # 0
          /\ out.sn[w][1] # 0
          /\ \E p \in Pix : galmodel[w][p] # 0

\* C4: a slice whose weights are all zero gets sky = 0 and sn = 0, never
\* causes the exception (a ValueError needs a slice that carries weight), and
\* its data, galaxy and psf values change nothing in what the call returns,
\* for any slice.
C4_ZeroWeightSlice ==
    /\ (prog = "determine_sky_and_sn" /\ out.status = "ok") =>
          \A w \in Waves :
              ZeroSlice(w) => (out.sky[w] = RatInt(0) /\ out.sn[w] = RatInt(0))
    /\ (prog = "determine_sky_and_sn" /\ out.status = "ValueError") =>
          \E w \in Waves : ~ZeroSlice(w)
    /\ (prog = "determine_sky_and_sn" /\ altw # 0) => out2 = out

C4_Witness ==
    /\ prog = "determine_sky_and_sn"
    /\ altw # 0
    /\ out2.status = "ok"
    /\ ZeroSlice(altw)
    /\ \E p \in Pix : data[altw][p] # 0 /\ snmodel[altw][p] # 0
    /\ \E w \in Waves : out2.sky[w] # RatInt(0) /\ out2.sn[w] # RatInt(0)

\* C5: when some wavelength has denom = 0 while its total weight A22 is not 0,
\* the call raises ValueError and hands back no sky and no sn at all.
C5_NullDenomRaises ==
    (/\ prog = "determine_sky_and_sn"
     /\ out # NoOut
     /\ \E w \in Waves : denom(weight, snmodel)[w] = 0 /\ A22(weight)[w] # 0)
        => (out.status = "ValueError" /\ DOMAIN out = {"status"})

C5_Witness ==
    /\ prog = "determine_sky_and_sn"
    /\ out.status = "ValueError"
    /\ \E w \in Waves : denom(weight, snmodel)[w] # 0

----------------------------------------------------------------------------
(* Two calls of determine_sky_and_sn whose inputs differ in one slice *)

InitSkySnSlices ==
    /\ prog = "determine_sky_and_sn twice"
    /\ data \in Cubes(DataVals)
    /\ weight \in Cubes(0..MaxWeight)
    /\ galmodel \in Cubes(GalVals)
    /\ snmodel \in Cubes(PsfVals)
    /\ out = NoOut
    /\ altw = 0
    /\ out2 = NoOut
    /\ IdleNotCube

\* sky, sn = determine_sky_and_sn(gal, psf, data, weight)
CallSkySnFirst ==
    /\ prog = "determine_sky_and_sn twice"
    /\ out = NoOut
    /\ out' = determine_sky_and_sn(galmodel, snmodel, data, weight)
    /\ UNCHANGED <<prog, cubeVars, altw, out2, notCubeVars>>

\* A second call on cubes that differ from those of the first call in slice
\* v of one of the four arrays.  Every bounded cube is an initial state, and
\* a slice without weight never raises, so chains of such replacements lead
\* from any returning call to any other that agrees with it outside slice v.
CallSkySnOtherSlice ==
    /\ prog = "determine_sky_and_sn twice"
    /\ out # NoOut
    /\ altw = 0
    /\ \E v \in Waves :
          /\ altw' = v
          /\ \/ \E d \in Slices(DataVals) \ {data[v]} :
                  out2' = determine_sky_and_sn(galmodel, snmodel,
                                               [data EXCEPT ![v] = d], weight)
             \/ \E g \in Slices(GalVals) \ {galmodel[v]} :
                  out2' = determine_sky_and_sn([galmodel EXCEPT ![v] = g],
                                               snmodel, data, weight)
             \/ \E s \in Slices(PsfVals) \ {snmodel[v]} :
                  out2' = determine_sky_and_sn(galmodel, [snmodel EXCEPT ![v] = s],
                                               data, weight)
             \/ \E x \in Slices(0..MaxWeight) \ {weight[v]} :
                  out2' = determine_sky_and_sn(galmodel, snmodel, data,
                                               [weight EXCEPT ![v] = x])
    /\ UNCHANGED <<prog, cubeVars, out, notCubeVars>>

NextSkySnSlices == CallSkySnFirst \/ CallSkySnOtherSlice

SpecSkySnSlices == InitSkySnSlices /\ [][NextSkySnSlices]_vars

\* C23: when determine_sky_and_sn returns, sky[w] and sn[w] depend only on
\* slice w of the four arrays: two returning calls whose inputs agree on
\* slice w give the same sky[w] and sn[w].
C23_SlicesIndependent ==
    (/\ prog = "determine_sky_and_sn twice"
     /\ altw # 0
     /\ out.status = "ok"
     /\ out2.status = "ok") =>
        \A w \in Waves \ {altw} :
            out2.sky[w] = out.sky[w] /\ out2.sn[w] = out.sn[w]

\* two returning calls that differ in the sky and sn of the changed slice
\* and return a non-zero sky and sn for the slice they share
C23_Witness ==
    /\ prog = "determine_sky_and_sn twice"
    /\ altw # 0
    /\ out.status = "ok"
    /\ out2.status = "ok"
    /\ out2.sky[altw] # out.sky[altw]
    /\ out2.sn[altw] # out.sn[altw]
    /\ \E w \in Waves \ {altw} :
          out.sky[w] # RatInt(0) /\ out.sn[w] # RatInt(0)

----------------------------------------------------------------------------
(* The sky profiled as a weighted average of the residual:                 *)
(* chisq_galaxy_sky_single (221-241), fit_position_sky.objective_func     *)
(* (398-412), and the last-calculated sky of fit_position_sky (420-421)   *)
(* and fit_galaxy_sky_multi (358-361).  The scene atm.evaluate_galaxy      *)
(* returns is the cube galmodel.                                           *)

RECURSIVE RatSumOver(_, _)
RatSumOver(f, S) ==
    IF S = {} THEN RatInt(0)
    ELSE LET p == CHOOSE q \in S : TRUE
         IN  RatAdd(f[p], RatSumOver(f, S \ {p}))

\* .sum(axis=(1, 2)) of a cube of rationals
RatSumPix(f) == RatSumOver(f, Pix)
\* np.sum of a cube of rationals
RatSumCube(c) == RatSumOver([w \in Waves |-> RatSumPix(c[w])], Waves)

\* np.average(a, weights=wt, axis=(1, 2)): numpy raises ZeroDivisionError
\* ("Weights sum to zero, can't be normalized") when the weights of any slice
\* sum to zero.
np_average(a, wt) ==
    IF \E w \in Waves : SumPix(wt[w]) = 0
    THEN [status |-> "ZeroDivisionError"]
    ELSE [status |-> "ok",
          avg |-> [w \in Waves |->
                     Rat(SumPix([p \in Pix |-> a[w][p] * wt[w][p]]), SumPix(wt[w]))]]

\* r = data - scene
Residual(d, scene) == [w \in Waves |-> [p \in Pix |-> d[w][p] - scene[w][p]]]

\* the residual left as data - scene
SkySubtracted_not(r0, sky) == [w \in Waves |-> [p \in Pix |-> RatInt(r0[w][p])]]

\* r -= sky[:, None, None]
SkySubtracted(r0, sky) ==
    [w \in Waves |-> [p \in Pix |-> RatSub(RatInt(r0[w][p]), sky[w])]]

\* wr = weight * r
WeightedResidual(wt, r) ==
    [w \in Waves |-> [p \in Pix |-> RatMul(RatInt(wt[w][p]), r[w][p])]]

\* tmp = np.sum(wr, axis=(1, 2)) / np.sum(weight, axis=(1, 2))
CorrectionTmp(wr, wt) ==
    [w \in Waves |-> RatDiv(RatSumPix(wr[w]), RatInt(SumPix(wt[w])))]

\* vtwr = weight * tmp[:, None, None]
CorrectionTerm(wt, tmp) ==
    [w \in Waves |-> [p \in Pix |-> RatMul(RatInt(wt[w][p]), tmp[w])]]

\* chisq_galaxy_sky_single: val, and the array handed to atm.gradient_helper
chisq_galaxy_sky_single(scene, d, wt) ==
    LET r0 == Residual(d, scene)
        av == np_average(r0, wt)
    IN  IF av.status # "ok" THEN [status |-> av.status]
        ELSE
        LET sky == av.avg
            r == SkySubtracted(r0, sky)
            wr == WeightedResidual(wt, r)
            val == RatSumCube([w \in Waves |-> [p \in Pix |-> RatMul(wr[w][p], r[w][p])]])
            tmp == CorrectionTmp(wr, wt)
            vtwr == CorrectionTerm(wt, tmp)
        IN  [status |-> "ok",
             sky |-> sky,
             val |-> val,
             grad |-> [w \in Waves |-> [p \in Pix |->
                         RatMul(RatInt(-2), RatSub(wr[w][p], vtwr[w][p]))]]]

\* fit_position_sky.objective_func for a trial inside the box
objective_func(gal, d, wt) ==
    LET resid == Residual(d, gal)
        av == np_average(resid, wt)
    IN  IF av.status # "ok" THEN [status |-> av.status]
        ELSE [status |-> "ok",
              sky |-> av.avg,
              val |-> RatSumCube([w \in Waves |-> [p \in Pix |->
                         LET e == RatSub(RatInt(resid[w][p]), av.avg[w])
                         IN  RatMul(RatInt(wt[w][p]), RatMul(e, e))]])]

\* sky = np.average(data - gal, weights=weight, axis=(1, 2))
last_calculated_sky(gal, d, wt) ==
    LET av == np_average(Residual(d, gal), wt)
    IN  IF av.status # "ok" THEN [status |-> av.status]
        ELSE [status |-> "ok", sky |-> av.avg]

SkyAverageProgs == {"chisq_galaxy_sky_single", "objective_func", "last_calculated_sky"}

ZeroCube == [w \in Waves |-> [p \in Pix |-> 0]]

InitSkyAverage ==
    /\ prog \in SkyAverageProgs
    /\ data \in Cubes(DataVals)
    /\ weight \in Cubes(0..MaxWeight)
    /\ galmodel \in Cubes(GalVals)
    /\ snmodel = ZeroCube
    /\ out = NoOut
    /\ altw = 0
    /\ out2 = NoOut
    /\ IdleNotCube

CallChisqGalaxySkySingle ==
    /\ prog = "chisq_galaxy_sky_single"
    /\ out = NoOut
    /\ out' = chisq_galaxy_sky_single(galmodel, data, weight)
    /\ UNCHANGED <<prog, cubeVars, altw, out2, notCubeVars>>

CallObjectiveFunc ==
    /\ prog = "objective_func"
    /\ out = NoOut
    /\ out' = objective_func(galmodel, data, weight)
    /\ UNCHANGED <<prog, cubeVars, altw, out2, notCubeVars>>

CallLastCalculatedSky ==
    /\ prog = "last_calculated_sky"
    /\ out = NoOut
    /\ out' = last_calculated_sky(galmodel, data, weight)
    /\ UNCHANGED <<prog, cubeVars, altw, out2, notCubeVars>>

NextSkyAverage ==
    CallChisqGalaxySkySingle \/ CallObjectiveFunc \/ CallLastCalculatedSky

SpecSkyAverage == InitSkyAverage /\ [][NextSkyAverage]_vars

\* C6: wherever the sky is profiled as the weighted average of the residual,
\* a slice whose weights are all zero yields sky = 0 for that slice and the
\* call ends without an exception.
C6_ZeroWeightSliceSkyIsZero ==
    (prog \in SkyAverageProgs /\ out # NoOut) =>
        /\ out.status = "ok"
        /\ \A w \in Waves : ZeroSlice(w) => out.sky[w] = RatInt(0)

\* the residual of chisq_galaxy_sky_single with the returned sky taken off:
\* data - scene - sky
ProfiledResidual(w, p) ==
    RatSub(RatInt(data[w][p] - galmodel[w][p]), out.sky[w])

\* the locals wr, tmp and vtwr of the call that returned out
LocalWr == WeightedResidual(weight, SkySubtracted(Residual(data, galmodel), out.sky))
LocalTmp == CorrectionTmp(LocalWr, weight)
LocalVtwr == CorrectionTerm(weight, LocalTmp)

\* C21: the residual that chisq_galaxy_sky_single uses for the chi-square
\* and the gradient has the profiled sky taken off: for every wavelength
\* with positive total weight the weighted residuals sum to zero, the
\* correction term weight * (sum(weight*r) / sum(weight)) is zero, and the
\* array handed to gradient_helper is -2 * weight * r.
C21_ResidualIsSkySubtracted ==
    (prog = "chisq_galaxy_sky_single" /\ out.status = "ok") =>
        /\ out.val = RatSumCube([w \in Waves |-> [p \in Pix |->
                         RatMul(RatInt(weight[w][p]),
                                RatMul(ProfiledResidual(w, p), ProfiledResidual(w, p)))]])
        /\ \A w \in Waves :
              SumPix(weight[w]) > 0 =>
                  /\ RatSumPix([p \in Pix |->
                         RatMul(RatInt(weight[w][p]), ProfiledResidual(w, p))]) = RatInt(0)
                  /\ RatSumPix(LocalWr[w]) = RatInt(0)
                  /\ LocalTmp[w] = RatInt(0)
                  /\ \A p \in Pix :
                        /\ LocalWr[w][p] =
                              RatMul(RatInt(weight[w][p]), ProfiledResidual(w, p))
                        /\ LocalVtwr[w][p] = RatInt(0)
                        /\ out.grad[w][p] =
                              RatMul(RatInt(-2),
                                     RatMul(RatInt(weight[w][p]), ProfiledResidual(w, p)))

\* a call with a non-zero sky in one slice, residuals that differ between
\* the weighted pixels of a slice, and a non-zero array for gradient_helper
C21_Witness ==
    /\ prog = "chisq_galaxy_sky_single"
    /\ out.status = "ok"
    /\ \E w \in Waves :
          /\ out.sky[w] # RatInt(0)
          /\ \A p \in Pix : weight[w][p] > 0
          /\ \E p \in Pix : out.grad[w][p] # RatInt(0)
          /\ \E p, q \in Pix : ProfiledResidual(w, p) # ProfiledResidual(w, q)
    /\ out.val # RatInt(0)

----------------------------------------------------------------------------
(* chisq_pssm_hess (543-623).  Positions are integers in units of 0.001    *)
(* spaxel.  chisq_nonref_epoch is the profiled chi-square of one epoch; the *)
(* forward model behind it is opaque, so its values on the stencil come    *)
(* from chisqtab: a base value everywhere, raised by one at (at most) one   *)
(* stencil point.  Every Hessian entry is linear in the sampled values, so *)
(* these tables decide equalities between entries and stencils.            *)

MaxEpochs == 2
MaxChisq == 1

\* EPS = 0.02 spaxel
EPS == 20
EPS2 == EPS * EPS

\* The points where chisq_pssm_hess samples an epoch, as offsets
\* <<dy, dx, dsny, dsnx>> in units of EPS.
StencilPoints ==
    {<<0, 0, 0, 0>>,
     <<2, 0, 0, 0>>, <<0, 2, 0, 0>>, <<1, 1, 0, 0>>, <<1, 0, 0, 0>>, <<0, 1, 0, 0>>,
     <<0, 0, 2, 0>>, <<0, 0, 0, 2>>, <<0, 0, 1, 1>>, <<0, 0, 1, 0>>, <<0, 0, 0, 1>>,
     <<1, 0, 1, 0>>, <<1, 0, 0, 1>>, <<0, 1, 1, 0>>, <<0, 1, 0, 1>>}

NoBump == <<>>
\* An epoch's chi-square as a function of the offsets from the nominal
\* positions: base everywhere but at bump, taken in units of step, where it
\* is base + 1.
ChisqTables == [base : 0..MaxChisq, bump : StencilPoints \cup {NoBump}, step : {EPS}]

Epochs(nep) == 0..(nep - 1)

\* index of snyctr in allctrs, and of the point source's row of the Hessian
SnIndex_lastEpoch(nep) == 2 * nep - 2

SnIndex(nep) == 2 * nep

\* chisq_nonref_epoch((y, x), (sny, snx), galaxy, datas[i], weights[i], atms[i])
chisq_nonref_epoch(i, y, x, sny, snx) ==
    LET t == chisqtab[i]
        at == <<y - allctrs[2 * i], x - allctrs[2 * i + 1],
                sny - allctrs[SnIndex(nepochs)], snx - allctrs[SnIndex(nepochs) + 1]>>
    IN  IF t.bump # NoBump /\ at = [k \in 1..4 |-> t.step * t.bump[k]]
        THEN t.base + 1
        ELSE t.base

\* One pass of the loop over epochs: the Hessian h after epoch i's entries.
HessEpoch(h, i) ==
    LET n == SnIndex(nepochs)
        yctr == allctrs[2 * i]
        xctr == allctrs[2 * i + 1]
        snyctr == allctrs[n]
        snxctr == allctrs[n + 1]
        c0 == chisq_nonref_epoch(i, yctr, xctr, snyctr, snxctr)
        cyy == chisq_nonref_epoch(i, yctr + 2 * EPS, xctr, snyctr, snxctr)
        cxx == chisq_nonref_epoch(i, yctr, xctr + 2 * EPS, snyctr, snxctr)
        cyx == chisq_nonref_epoch(i, yctr + EPS, xctr + EPS, snyctr, snxctr)
        cy == chisq_nonref_epoch(i, yctr + EPS, xctr, snyctr, snxctr)
        cx == chisq_nonref_epoch(i, yctr, xctr + EPS, snyctr, snxctr)
        czz == chisq_nonref_epoch(i, yctr, xctr, snyctr + 2 * EPS, snxctr)
        cww == chisq_nonref_epoch(i, yctr, xctr, snyctr, snxctr + 2 * EPS)
        czw == chisq_nonref_epoch(i, yctr, xctr, snyctr + EPS, snxctr + EPS)
        cz == chisq_nonref_epoch(i, yctr, xctr, snyctr + EPS, snxctr)
        cw == chisq_nonref_epoch(i, yctr, xctr, snyctr, snxctr + EPS)
        cyz == chisq_nonref_epoch(i, yctr + EPS, xctr, snyctr + EPS, snxctr)
        cyw == chisq_nonref_epoch(i, yctr + EPS, xctr, snyctr, snxctr + EPS)
        cxz == chisq_nonref_epoch(i, yctr, xctr + EPS, snyctr + EPS, snxctr)
        cxw == chisq_nonref_epoch(i, yctr, xctr + EPS, snyctr, snxctr + EPS)
        \* the epoch's own block
        h1 == [h EXCEPT
                 ![<<2 * i, 2 * i>>] = Rat(cyy - 2 * cy + c0, EPS2),
                 ![<<2 * i + 1, 2 * i + 1>>] = Rat(cxx - 2 * cx + c0, EPS2),
                 ![<<2 * i, 2 * i + 1>>] = Rat(cyx - cy - cx + c0, EPS2)]
        h2 == [h1 EXCEPT ![<<2 * i + 1, 2 * i>>] = h1[<<2 * i, 2 * i + 1>>]]
        \* "We *add* to the hessian at the SN positions"
        h3 == [h2 EXCEPT
                 ![<<n, n>>] = RatAdd(@, Rat(czz - 2 * cz + c0, EPS2)),
                 ![<<n + 1, n + 1>>] = RatAdd(@, Rat(cww - 2 * cw + c0, EPS2)),
                 ![<<n, n + 1>>] = RatAdd(@, Rat(czw - cz - cw + c0, EPS2)),
                 ![<<n + 1, n>>] = RatAdd(@, Rat(czw - cz - cw + c0, EPS2))]
        \* terms mixing data position and SN position
        h4 == [h3 EXCEPT
                 ![<<2 * i, n>>] = Rat(cyz - cy - cz - c0, EPS2),
                 ![<<2 * i, n + 1>>] = Rat(cyw - cy - cw - c0, EPS2),
                 ![<<2 * i + 1, n>>] = Rat(cxz - cx - cz - c0, EPS2),
                 ![<<2 * i + 1, n + 1>>] = Rat(cxw - cx - cw - c0, EPS2)]
    IN  [h4 EXCEPT
           ![<<n, 2 * i>>] = h4[<<2 * i, n>>],
           ![<<n + 1, 2 * i>>] = h4[<<2 * i, n + 1>>],
           ![<<n, 2 * i + 1>>] = h4[<<2 * i + 1, n>>],
           ![<<n + 1, 2 * i + 1>>] = h4[<<2 * i + 1, n + 1>>]]

\* a matrix that does not start from zero
HessZeros_ones ==
    [e \in (0..(2 * nepochs + 1)) \X (0..(2 * nepochs + 1)) |-> RatInt(1)]

\* hess = np.zeros((len(allctrs), len(allctrs)))
HessZeros ==
    [e \in (0..(2 * nepochs + 1)) \X (0..(2 * nepochs + 1)) |-> RatInt(0)]

\* the Hessian after the passes for epochs 0 .. i-1
RECURSIVE HessLoop(_)
HessLoop(i) == IF i = 0 THEN HessZeros ELSE HessEpoch(HessLoop(i - 1), i - 1)

chisq_pssm_hess == HessLoop(nepochs)

InitPssmHess ==
    /\ prog = "chisq_pssm_hess"
    /\ nepochs \in 1..MaxEpochs
    /\ allctrs = [k \in 0..(2 * nepochs + 1) |-> 0]
    /\ chisqtab \in [Epochs(nepochs) -> ChisqTables]
    /\ data = ZeroCube /\ weight = ZeroCube
    /\ galmodel = ZeroCube /\ snmodel = ZeroCube
    /\ out = NoOut /\ altw = 0 /\ out2 = NoOut
    /\ IdleGuess /\ IdleClip /\ IdleDrv /\ IdleObj

CallChisqPssmHess ==
    /\ prog = "chisq_pssm_hess"
    /\ out = NoOut
    /\ out' = [status |-> "ok", hess |-> chisq_pssm_hess]
    /\ UNCHANGED <<prog, cubeVars, altw, out2, pssmVars, npix, clipVars, drvVars, objVars>>

NextPssmHess == CallChisqPssmHess

SpecPssmHess == InitPssmHess /\ [][NextPssmHess]_vars

\* the value chisq_nonref_epoch has for epoch i at offsets (dy, dx, dz, dw),
\* in units of EPS, from the nominal positions
F(i, dy, dx, dz, dw) ==
    chisq_nonref_epoch(i, allctrs[2 * i] + dy * EPS, allctrs[2 * i + 1] + dx * EPS,
                       allctrs[2 * nepochs] + dz * EPS,
                       allctrs[2 * nepochs + 1] + dw * EPS)

\* C7: every mixed second partial, the cross terms between an epoch's data
\* position and the point-source position included, is
\* (f(a+h, b+h) - f(a+h) - f(b+h) + f(0)) / h^2, and every pure second
\* partial is (f(a+2h) - 2 f(a+h) + f(0)) / h^2.
C7_StandardStencils ==
    (prog = "chisq_pssm_hess" /\ out.status = "ok") =>
        \A i \in Epochs(nepochs) :
            LET n == 2 * nepochs
                f0 == F(i, 0, 0, 0, 0)
            IN  /\ out.hess[<<2 * i, 2 * i>>] =
                      Rat(F(i, 2, 0, 0, 0) - 2 * F(i, 1, 0, 0, 0) + f0, EPS2)
                /\ out.hess[<<2 * i + 1, 2 * i + 1>>] =
                      Rat(F(i, 0, 2, 0, 0) - 2 * F(i, 0, 1, 0, 0) + f0, EPS2)
                /\ out.hess[<<2 * i, 2 * i + 1>>] =
                      Rat(F(i, 1, 1, 0, 0) - F(i, 1, 0, 0, 0) - F(i, 0, 1, 0, 0) + f0, EPS2)
                /\ out.hess[<<2 * i, n>>] =
                      Rat(F(i, 1, 0, 1, 0) - F(i, 1, 0, 0, 0) - F(i, 0, 0, 1, 0) + f0, EPS2)
                /\ out.hess[<<2 * i, n + 1>>] =
                      Rat(F(i, 1, 0, 0, 1) - F(i, 1, 0, 0, 0) - F(i, 0, 0, 0, 1) + f0, EPS2)
                /\ out.hess[<<2 * i + 1, n>>] =
                      Rat(F(i, 0, 1, 1, 0) - F(i, 0, 1, 0, 0) - F(i, 0, 0, 1, 0) + f0, EPS2)
                /\ out.hess[<<2 * i + 1, n + 1>>] =
                      Rat(F(i, 0, 1, 0, 1) - F(i, 0, 1, 0, 0) - F(i, 0, 0, 0, 1) + f0, EPS2)

\* C8: every entry that couples the positions of two different epochs is
\* exactly zero.
C8_CrossEpochZero ==
    (prog = "chisq_pssm_hess" /\ out.status = "ok") =>
        \A i, k \in Epochs(nepochs) :
            i # k =>
                \A a \in {2 * i, 2 * i + 1}, b \in {2 * k, 2 * k + 1} :
                    out.hess[<<a, b>>] = RatInt(0)

C8_Witness ==
    /\ prog = "chisq_pssm_hess"
    /\ out.status = "ok"
    /\ nepochs >= 2
    /\ \A i \in Epochs(nepochs) :
          /\ out.hess[<<2 * i, 2 * i + 1>>] # RatInt(0)
          /\ out.hess[<<2 * i, 2 * nepochs>>] # RatInt(0)

\* the second-difference terms of epoch i for the point-source position:
\* (f(z+2h) - 2 f(z+h) + f) / h^2 and (f(z+h, w+h) - f(z+h) - f(w+h) + f) / h^2
SnSecondDifference(i, a, b) ==
    LET f0 == F(i, 0, 0, 0, 0)
        fz == F(i, 0, 0, 1, 0)
        fw == F(i, 0, 0, 0, 1)
    IN  IF a = 0 /\ b = 0 THEN Rat(F(i, 0, 0, 2, 0) - 2 * fz + f0, EPS2)
        ELSE IF a = 1 /\ b = 1 THEN Rat(F(i, 0, 0, 0, 2) - 2 * fw + f0, EPS2)
        ELSE Rat(F(i, 0, 0, 1, 1) - fz - fw + f0, EPS2)

\* the values an entry mixing a coordinate of epoch i with a coordinate of
\* the point source can take when it is built from epoch i's samples alone:
\* the perturbed samples fab, fa, fb of epoch i with its nominal sample
\* entering with either sign
OwnEpochCrossTerms(i, fab, fa, fb) ==
    {Rat(fab - fa - fb + F(i, 0, 0, 0, 0), EPS2),
     Rat(fab - fa - fb - F(i, 0, 0, 0, 0), EPS2)}

\* C20: the Hessian is symmetric; each entry of the point-source block is
\* the sum over the epochs of the epoch's second-difference term; each
\* epoch's own block and its cross block with the point source are built
\* from that epoch's samples only.
C20_SymmetricBlockStructure ==
    (prog = "chisq_pssm_hess" /\ out.status = "ok") =>
        LET n == 2 * nepochs
            N == 0..(2 * nepochs + 1)
        IN  /\ \A a, b \in N : out.hess[<<a, b>>] = out.hess[<<b, a>>]
            /\ \A a, b \in {0, 1} :
                  out.hess[<<n + a, n + b>>] =
                      RatSumOver([i \in Epochs(nepochs) |-> SnSecondDifference(i, a, b)],
                                 Epochs(nepochs))
            /\ \A i \in Epochs(nepochs) :
                  LET f0 == F(i, 0, 0, 0, 0)
                      fy == F(i, 1, 0, 0, 0)
                      fx == F(i, 0, 1, 0, 0)
                      fz == F(i, 0, 0, 1, 0)
                      fw == F(i, 0, 0, 0, 1)
                  IN  /\ out.hess[<<2 * i, 2 * i>>] =
                            Rat(F(i, 2, 0, 0, 0) - 2 * fy + f0, EPS2)
                      /\ out.hess[<<2 * i + 1, 2 * i + 1>>] =
                            Rat(F(i, 0, 2, 0, 0) - 2 * fx + f0, EPS2)
                      /\ out.hess[<<2 * i, 2 * i + 1>>] =
                            Rat(F(i, 1, 1, 0, 0) - fy - fx + f0, EPS2)
                      /\ out.hess[<<2 * i, n>>] \in
                            OwnEpochCrossTerms(i, F(i, 1, 0, 1, 0), fy, fz)
                      /\ out.hess[<<2 * i, n + 1>>] \in
                            OwnEpochCrossTerms(i, F(i, 1, 0, 0, 1), fy, fw)
                      /\ out.hess[<<2 * i + 1, n>>] \in
                            OwnEpochCrossTerms(i, F(i, 0, 1, 1, 0), fx, fz)
                      /\ out.hess[<<2 * i + 1, n + 1>>] \in
                            OwnEpochCrossTerms(i, F(i, 0, 1, 0, 1), fx, fw)

\* two epochs that both contribute a non-zero term to the same point-source
\* entry, with non-zero own-block and cross-block entries
C20_Witness ==
    /\ prog = "chisq_pssm_hess"
    /\ out.status = "ok"
    /\ nepochs >= 2
    /\ \A i \in Epochs(nepochs) : SnSecondDifference(i, 0, 0) # RatInt(0)
    /\ out.hess[<<2 * nepochs, 2 * nepochs>>] # SnSecondDifference(0, 0, 0)
    /\ out.hess[<<2 * nepochs, 2 * nepochs>>] # RatInt(0)
    /\ out.hess[<<0, 0>>] # out.hess[<<2, 2>>]
    /\ out.hess[<<0, 2 * nepochs>>] # RatInt(0)

----------------------------------------------------------------------------
(* guess_sky (100-139) *)

MaxSkyWeight == 2
MaxNpix == 4
GuessDataVals == {0, 1, 2}

\* The cubes guess_sky is run on: two slices of two pixels, or one of three.
GuessCubes(S) == [{1, 2} -> [{1, 2} -> S]] \cup [{1} -> [{1, 2, 3} -> S]]

\* range(cube.nw), and the pixels of a slice
CubeWaves == DOMAIN data
CubePix == DOMAIN data[1]

Min(a, b) == IF a < b THEN a ELSE b

\* mask = cube.weight[i] > 0.
PositiveWeight(wt) == wt > 0

\* the order argsort puts two values in, taking the highest values first
InOrder_descending(a, b) == a >= b

\* the order np.argsort puts two values in
InOrder(a, b) == a <= b

\* The pixels v = cube.data[i][mask] is made of.
Selected(w) == {p \in CubePix : PositiveWeight(weight[w][p])}

\* idx = np.argsort(v): the orders of the selected pixels by value.  The sort
\* is not stable, so pixels of equal value come in any order.
Argsorts(w) ==
    {ord \in [1..Cardinality(Selected(w)) -> Selected(w)] :
        /\ \A a, b \in DOMAIN ord : a # b => ord[a] # ord[b]
        /\ \A a, b \in DOMAIN ord : a < b => InOrder(data[w][ord[a]], data[w][ord[b]])}

RECURSIVE SumFirst(_, _, _)
\* sum of f over the first k pixels of ord
SumFirst(f, ord, k) == IF k = 0 THEN 0 ELSE f[ord[k]] + SumFirst(f, ord, k - 1)

\* One pass of the loop over wavelengths: sky[i] given argsort's answer ord.
GuessSkySlice(w, ord) ==
    LET k == Min(npix, Len(ord))
    IN  IF k <= 0 THEN RatInt(0)
        ELSE Rat(SumFirst([p \in CubePix |-> data[w][p] * weight[w][p]], ord, k),
                 SumFirst(weight[w], ord, k))

InitGuessSky ==
    /\ prog = "guess_sky"
    /\ data \in GuessCubes(GuessDataVals)
    /\ weight \in GuessCubes(0..MaxSkyWeight)
    /\ DOMAIN weight = DOMAIN data
    /\ DOMAIN weight[1] = DOMAIN data[1]
    /\ npix \in (-1)..MaxNpix
    /\ galmodel = ZeroCube /\ snmodel = ZeroCube
    /\ out = NoOut /\ altw = 0 /\ out2 = NoOut
    /\ IdlePssm /\ IdleClip /\ IdleDrv /\ IdleObj

CallGuessSky ==
    /\ prog = "guess_sky"
    /\ out = NoOut
    /\ \E idx \in [CubeWaves -> UNION {Argsorts(w) : w \in CubeWaves}] :
          /\ \A w \in CubeWaves : idx[w] \in Argsorts(w)
          /\ out' = [status |-> "ok",
                     sky |-> [w \in CubeWaves |-> GuessSkySlice(w, idx[w])]]
    /\ UNCHANGED <<prog, cubeVars, altw, out2, notCubeVars>>

NextGuessSky == CallGuessSky

SpecGuessSky == InitGuessSky /\ [][NextGuessSky]_vars

\* C9: for every wavelength, guess_sky returns the weighted average of
\* k = min(npix, count) lowest-valued pixels among the count pixels of the
\* slice that have weight > 0, and 0 when there is no such pixel or k <= 0;
\* pixels with weight <= 0 are never part of the average.
C9_LowestPixelsAverage ==
    (prog = "guess_sky" /\ out.status = "ok") =>
        \A w \in CubeWaves :
            LET P == {p \in CubePix : weight[w][p] > 0}
                k == Min(npix, Cardinality(P))
            IN  IF k <= 0 THEN out.sky[w] = RatInt(0)
                ELSE \E S \in SUBSET P :
                        /\ Cardinality(S) = k
                        /\ \A a \in S, b \in P \ S : data[w][a] <= data[w][b]
                        /\ out.sky[w] =
                              Rat(SumOver([p \in CubePix |-> data[w][p] * weight[w][p]], S),
                                  SumOver(weight[w], S))

C9_Witness ==
    /\ prog = "guess_sky"
    /\ out.status = "ok"
    /\ npix = 1
    /\ \E w \in CubeWaves :
          /\ \A p \in CubePix : weight[w][p] > 0
          /\ \E p, q \in CubePix : data[w][p] < data[w][q] /\ out.sky[w] = RatInt(data[w][p])
    /\ \E w \in CubeWaves, p, q \in CubePix :
          /\ weight[w][p] = 0 /\ weight[w][q] > 0
          /\ data[w][p] < data[w][q]
          /\ out.sky[w] = RatInt(data[w][q])

----------------------------------------------------------------------------
(* guess_sky_clipping (44-97).  One action is one pass of the for loop; the *)
(* pass that ends the loop also returns.                                   *)

MaxIter == 3
ClipVals == {0, 1, 2}
ClipDataVals == {0, 4}
ClipWeightVals == {0, 1, 2}

\* 1.0 / 0.0
Inf == <<1, 0>>

\* a < b for rationals with positive denominators
RatLess(a, b) == a[1] * b[2] < b[1] * a[2]

\* a variance of 0 in place of 1.0 / 0.0
InverseWeight_zeroGuard(wt) ==
    [w \in Waves |-> [p \in Pix |-> IF wt[w][p] = 0 THEN RatInt(0) ELSE Rat(1, wt[w][p])]]

\* var = 1.0 / weight
InverseWeight(wt) ==
    [w \in Waves |-> [p \in Pix |-> IF wt[w][p] = 0 THEN Inf ELSE Rat(1, wt[w][p])]]

\* np.ma.average(cube.data, weights=weight, axis=(1, 2)): a wavelength whose
\* weights sum to zero is masked.  The masked quotient keeps its numerator,
\* the sum of data * 0, as the data under the mask.
ma_average(d, wt) ==
    [data |-> [w \in Waves |->
                 IF SumPix(wt[w]) = 0 THEN RatInt(0)
                 ELSE Rat(SumPix([p \in Pix |-> d[w][p] * wt[w][p]]), SumPix(wt[w]))],
     mask |-> [w \in Waves |-> SumPix(wt[w]) = 0]]

\* deviation**2 > clip**2 * var for one pixel of a wavelength that is not
\* masked.  Against var = inf (or clip**2 * var = nan) the comparison is False.
Clipped(d, a, c, v) ==
    IF v = Inf THEN FALSE
    ELSE LET deviation == RatSub(RatInt(d), a)
         IN  RatLess(RatMul(RatInt(c * c), v), RatMul(deviation, deviation))

\* The values mask = deviation**2 > clip**2 * var can take: numpy does not say
\* what data lies under a masked entry, so there it is any boolean.
ClipMasks(d, a, c, v) ==
    LET flag == [w \in Waves |-> [p \in Pix |->
                    IF a.mask[w] THEN FALSE
                    ELSE Clipped(d[w][p], a.data[w], c, v[w][p])]]
        under == {u \in [Waves -> [Pix -> BOOLEAN]] :
                    \A w \in Waves, p \in Pix : ~a.mask[w] => ~u[w][p]}
    IN  {[data |-> [w \in Waves |-> [p \in Pix |-> flag[w][p] \/ u[w][p]]],
          mask |-> [w \in Waves |-> [p \in Pix |-> a.mask[w]]]] : u \in under}

\* the break test comparing only the boolean values
MaskUnchanged_dataOnly(m, old) == old # None /\ m.data = old.data

\* oldmask is not None and (mask.data == oldmask.data).all() and
\* (mask.mask == oldmask.mask).all()
MaskUnchanged(m, old) ==
    /\ old # None
    /\ m.data = old.data
    /\ m.mask = old.mask

\* weight[mask] = 0.0 (and var[mask] = 0.0 with zero == RatInt(0)): the index
\* is the data of the masked array
ZeroWhere(x, m, zero) ==
    [w \in Waves |-> [p \in Pix |-> IF m.data[w][p] THEN zero ELSE x[w][p]]]

\* np.asarray(avg)
asarray(a) == IF a = None THEN None ELSE a.data

InitClipping ==
    /\ prog = "guess_sky_clipping"
    /\ data \in Cubes(ClipDataVals)
    /\ weight \in Cubes(ClipWeightVals)
    /\ clip \in ClipVals
    /\ maxiter \in 0..MaxIter
    /\ npass = 0 /\ ended = "no"
    /\ wcopy = weight
    /\ var = InverseWeight(weight)
    /\ avg = None /\ mask = None /\ oldmask = None /\ wused = None
    /\ galmodel = ZeroCube /\ snmodel = ZeroCube
    /\ out = NoOut /\ altw = 0 /\ out2 = NoOut
    /\ IdlePssm /\ IdleGuess /\ IdleDrv /\ IdleObj

\* for j in range(maxiter): one pass
ClipPass ==
    /\ prog = "guess_sky_clipping"
    /\ ended = "no"
    /\ npass < maxiter
    /\ LET a == ma_average(data, wcopy)
       IN  \E m \in ClipMasks(data, a, clip, var) :
              /\ oldmask' = mask
              /\ avg' = a
              /\ mask' = m
              /\ wused' = wcopy
              /\ npass' = npass + 1
              /\ IF MaskUnchanged(m, mask)
                 THEN /\ ended' = "break"
                      /\ out' = [status |-> "ok", sky |-> asarray(a)]
                      /\ UNCHANGED <<wcopy, var>>
                 ELSE /\ wcopy' = ZeroWhere(wcopy, m, 0)
                      /\ var' = ZeroWhere(var, m, RatInt(0))
                      /\ IF npass + 1 = maxiter
                         THEN /\ ended' = "maxiter"
                              /\ out' = [status |-> "ok", sky |-> asarray(a)]
                         ELSE /\ ended' = "no"
                              /\ out' = out
    /\ UNCHANGED <<prog, cubeVars, altw, out2, pssmVars, npix, clip, maxiter, drvVars, objVars>>

\* range(maxiter) is empty: the loop body never runs and avg is still None
ClipNoPass ==
    /\ prog = "guess_sky_clipping"
    /\ ended = "no"
    /\ maxiter = 0
    /\ ended' = "maxiter"
    /\ out' = [status |-> "ok", sky |-> asarray(avg)]
    /\ UNCHANGED <<prog, cubeVars, altw, out2, pssmVars, npix,
                   clip, maxiter, npass, wcopy, var, avg, mask, oldmask, wused,
                   drvVars, objVars>>

NextClipping == ClipPass \/ ClipNoPass

SpecClipping == InitClipping /\ [][NextClipping]_vars

\* C10: the loop ends after at most maxiter passes; it ends before that
\* exactly at the first pass whose mask (boolean values and undefined
\* entries) equals the mask of the pass before; what is returned is the
\* weighted mean computed in the last executed pass, with 0 for every
\* wavelength whose weights were all zero in that pass.
C10_ClippingLoop ==
    prog = "guess_sky_clipping" =>
        /\ npass <= maxiter
        /\ ended = "no" =>
              /\ out = NoOut
              /\ maxiter > 0 => npass < maxiter
        /\ ended = "break" => (npass >= 2 /\ mask = oldmask)
        /\ ended = "maxiter" => npass = maxiter
        /\ (npass >= 2 /\ ended # "break") => mask # oldmask
        /\ (ended # "no" /\ npass >= 1) =>
              /\ out.status = "ok"
              /\ \A w \in Waves :
                    out.sky[w] =
                        IF \A p \in Pix : wused[w][p] = 0 THEN RatInt(0)
                        ELSE Rat(SumPix([p \in Pix |-> data[w][p] * wused[w][p]]),
                                 SumPix(wused[w]))

C10_Witness ==
    /\ prog = "guess_sky_clipping"
    /\ ended = "break"
    /\ npass < maxiter
    /\ \E w \in Waves :
          /\ \A p \in Pix : weight[w][p] = 0 /\ data[w][p] # 0
          /\ out.sky[w] = RatInt(0)
    /\ \E w \in Waves, p, q \in Pix :
          /\ wused[w][p] = 0 /\ weight[w][p] > 0 /\ wused[w][q] > 0
          /\ out.sky[w] = RatInt(data[w][q])

\* One step of guess_sky_clipping keeps the working weights from growing.
ClipStepMonotone ==
    prog = "guess_sky_clipping" =>
        /\ data' = data
        /\ weight' = weight
        /\ \A w \in Waves, p \in Pix :
              /\ wcopy'[w][p] <= wcopy[w][p]
              /\ wcopy[w][p] = 0 => wcopy'[w][p] = 0
              /\ wcopy'[w][p] \in {0, weight[w][p]}
              \* the pass averages with the working weights it found
              /\ npass' > npass => wused' = wcopy
              \* a pixel without input weight is never flagged: its entry of
              \* the mask is False wherever the mask is defined
              /\ (npass' > npass /\ weight[w][p] = 0 /\ ~mask'.mask[w][p]) =>
                    ~mask'.data[w][p]

\* C22: the working weights of guess_sky_clipping only ever decrease: a
\* pixel whose weight a pass set to zero has weight zero in every later
\* pass, a pixel whose input weight is zero is never flagged by the clipping
\* test, and cube.weight and cube.data are never modified.
C22_WeightsOnlyDecrease == [][ClipStepMonotone]_vars

\* after two passes or more: a pixel with input weight that was clipped and
\* is still out of the average, and a pixel without input weight that
\* deviates from the average of its slice and is not flagged
C22_Witness ==
    /\ prog = "guess_sky_clipping"
    /\ npass >= 2
    /\ \E w \in Waves, p \in Pix :
          /\ weight[w][p] > 0 /\ wused[w][p] = 0 /\ wcopy[w][p] = 0
          /\ ~mask.mask[w][p]
    /\ \E w \in Waves, p, q \in Pix :
          /\ weight[w][p] = 0 /\ wcopy[w][q] > 0
          /\ RatInt(data[w][p]) # avg.data[w]
          /\ ~mask.data[w][p]

----------------------------------------------------------------------------
(* The outer drivers: fit_galaxy_single (259-295), fit_galaxy_sky_multi    *)
(* (298-363), fit_position_sky (366-423), fit_position_sky_sn_multi        *)
(* (627-719) and fit_position_sky_sn_multi_old (722-814).  The optimizers  *)
(* of scipy.optimize are external: all the model keeps of them is that     *)
(* they call the function they were given at points of their choosing and  *)
(* then return a point and a warnflag.  Positions are integers in units of *)
(* 0.001 spaxel; a parameter vector is indexed from 0 as in the code.      *)

Drivers ==
    {"fit_galaxy_single", "fit_galaxy_sky_multi", "fit_position_sky",
     "fit_position_sky_sn_multi", "fit_position_sky_sn_multi_old"}
GalaxyDrivers == {"fit_galaxy_single", "fit_galaxy_sky_multi"}
PositionDrivers == Drivers \ GalaxyDrivers
SingleEpochDrivers == {"fit_galaxy_single", "fit_position_sky"}

MaxTrials == 2
Ctr0Vals == {0, 500}
Ctr0Steps == {0, 10}
YXBounds == {<<-1000, 1000>>, <<-5000, 5000>>}
WarnFlags == {0, 1, 2, 3}

\* BOUND = 3. in fit_position_sky, 2. in fit_position_sky_sn_multi(_old)
BOUND == IF prog = "fit_position_sky" THEN 3000 ELSE 2000

\* EPS = 0.001 of chisq_position_sky_sn_multi
EPS_position == 1

Max(a, b) == IF a > b THEN a ELSE b

\* The indices of the positions a driver is given, and of the parameters
\* its optimizer works on.
CtrIdx ==
    IF prog = "fit_position_sky" THEN 0..1
    ELSE IF prog \in GalaxyDrivers THEN 0..(2 * nepochs - 1)
    ELSE 0..(2 * nepochs + 1)
ParamIdx == IF prog \in GalaxyDrivers THEN 0..0 ELSE CtrIdx

\* "For SN position bounds, we don't do any checking like this."
IsEpochCoord(k) == prog = "fit_position_sky" \/ k < 2 * nepochs
minbound(k) ==
    IF IsEpochCoord(k) THEN Max(ctrs0[k] - BOUND, yxabs[(k % 2) + 1][1])
    ELSE ctrs0[k] - BOUND
maxbound(k) ==
    IF IsEpochCoord(k) THEN Min(ctrs0[k] + BOUND, yxabs[(k % 2) + 1][2])
    ELSE ctrs0[k] + BOUND

\* bounds=bounds of fmin_l_bfgs_b
InBounds(x) == \A k \in ParamIdx : minbound(k) <= x[k] /\ x[k] <= maxbound(k)

\* the test of fit_position_sky's objective_func
StrictlyInside(x) ==
    /\ minbound(0) < x[0] /\ x[0] < maxbound(0)
    /\ minbound(1) < x[1] /\ x[1] < maxbound(1)

\* The points an optimizer's search is followed to: the initial vector with
\* one coordinate moved to, or just past, an end of its bound pair.
Coords(k) == {minbound(k) - 1, minbound(k), ctrs0[k], maxbound(k), maxbound(k) + 1}
Points ==
    UNION {{[k \in ParamIdx |-> IF k = j THEN v ELSE ctrs0[k]] : v \in Coords(j)} :
           j \in ParamIdx}

\* fmin_l_bfgs_b is given bounds only by fit_position_sky_sn_multi_old;
\* fmin and fmin_ncg take none.  The galaxy drivers optimise the raveled
\* galaxy, one voxel here.
TrialPoints ==
    IF prog \in GalaxyDrivers THEN [ParamIdx -> GalVals]
    ELSE IF prog = "fit_position_sky_sn_multi_old" THEN {x \in Points : InBounds(x)}
    ELSE Points

\* The functions handed to the optimizer.
Objectives ==
    IF prog \in GalaxyDrivers THEN {"objective"}
    ELSE IF prog = "fit_position_sky" THEN {"objective_func"}
    ELSE IF prog = "fit_position_sky_sn_multi"
         THEN {"chisq_pssm", "chisq_pssm_grad", "chisq_pssm_hess"}
    ELSE {"chisq_position_sky_sn_multi"}

\* The forward model is evaluated for epoch i at c + o for each offset o.
At(i, c, offs) == {<<i, c[1] + o[1], c[2] + o[2]>> : o \in offs}

\* The data-position offsets of each finite-difference scheme.
EpochOffsets(f) ==
    IF f = "chisq_pssm" THEN {<<0, 0>>}
    ELSE IF f = "chisq_pssm_grad" THEN {<<0, 0>>, <<EPS, 0>>, <<0, EPS>>}
    ELSE IF f = "chisq_pssm_hess" THEN {<<EPS * s[1], EPS * s[2]>> : s \in StencilPoints}
    ELSE {<<0, 0>>, <<EPS_position, 0>>, <<0, EPS_position>>}

\* Where a call f(x) by the optimizer evaluates the forward model.
ObjectiveEvals(f, x) ==
    IF prog \in GalaxyDrivers
    THEN UNION {At(i, <<ctrs0[2 * i], ctrs0[2 * i + 1]>>, {<<0, 0>>}) : i \in Epochs(nepochs)}
    ELSE IF prog = "fit_position_sky"
    THEN IF StrictlyInside(x) THEN {<<0, x[0], x[1]>>} ELSE {}
    ELSE UNION {At(i, <<x[2 * i], x[2 * i + 1]>>, EpochOffsets(f)) : i \in Epochs(nepochs)}

\* Where the driver evaluates the forward model after the optimizer returned.
FinalEvals(x) ==
    IF prog = "fit_galaxy_single" THEN {}
    ELSE IF prog = "fit_galaxy_sky_multi"
    THEN UNION {At(i, <<ctrs0[2 * i], ctrs0[2 * i + 1]>>, {<<0, 0>>}) : i \in Epochs(nepochs)}
    ELSE IF prog = "fit_position_sky" THEN {<<0, x[0], x[1]>>}
    ELSE UNION {At(i, <<x[2 * i], x[2 * i + 1]>>, {<<0, 0>>}) : i \in Epochs(nepochs)}

\* fallctrs.reshape((nepochs+1, 2)): row i is <<y, x>>
reshape(x) == [i \in 0..nepochs |-> <<x[2 * i], x[2 * i + 1]>>]

\* np.ravel(np.vstack((ctrs0, snctr0))): the rows one after the other
ravel(rows) == [k \in 0..(2 * nepochs + 1) |-> rows[k \div 2][(k % 2) + 1]]

\* What determine_sky_and_sn returns for epoch i with the scene evaluated at
\* ctr and the psf at snctr: the forward model is opaque here, so the value
\* is the term naming the evaluation.
SkySnAt(which, i, ctr, snctr) ==
    [of |-> which, epoch |-> i, ctr |-> ctr, snctr |-> snctr]

\* What a driver returns for the optimizer's point x.
DriverResult(x) ==
    IF prog \in {"fit_position_sky_sn_multi", "fit_position_sky_sn_multi_old"}
    THEN LET fallctrs == reshape(x)
             fsnctr == fallctrs[nepochs]
             fctrs == [i \in Epochs(nepochs) |-> fallctrs[i]]
         IN  [status |-> "ok",
              fctrs |-> fctrs,
              fsnctr |-> fsnctr,
              skys |-> [i \in Epochs(nepochs) |-> SkySnAt("sky", i, fctrs[i], fsnctr)],
              sne |-> [i \in Epochs(nepochs) |-> SkySnAt("sn", i, fctrs[i], fsnctr)]]
    ELSE [status |-> "ok", x |-> x]

\* _check_result and _check_result_fmin: return on 0, raise on anything else
check_result(warnflag) == IF warnflag = 0 THEN "ok" ELSE "RuntimeError"

InitDrivers ==
    /\ prog \in Drivers
    /\ nepochs \in (IF prog \in SingleEpochDrivers THEN {1} ELSE 1..MaxEpochs)
    /\ allctrs = <<>> /\ chisqtab = <<>>
    /\ \E c \in Ctr0Vals, s \in Ctr0Steps : ctrs0 = [k \in CtrIdx |-> c + s * k]
    /\ yxabs \in YXBounds \X YXBounds
    /\ pc = "start" /\ called = "none" /\ trial = None /\ ntrials = 0
    /\ evalpos = {} /\ res = None /\ checked = FALSE
    /\ data = ZeroCube /\ weight = ZeroCube
    /\ galmodel = ZeroCube /\ snmodel = ZeroCube
    /\ out = NoOut /\ altw = 0 /\ out2 = NoOut
    /\ IdleGuess /\ IdleClip /\ IdleObj

drvFixed == <<prog, cubeVars, altw, out2, pssmVars, npix, clipVars, ctrs0, yxabs, objVars>>

\* The optimizer calls one of the functions it was given.
OptimizerCalls ==
    /\ prog \in Drivers
    /\ pc \in {"start", "optimizing"}
    /\ ntrials < MaxTrials
    /\ \E f \in Objectives, x \in TrialPoints :
          /\ called' = f
          /\ trial' = x
          /\ evalpos' = ObjectiveEvals(f, x)
    /\ ntrials' = ntrials + 1
    /\ pc' = "optimizing"
    /\ UNCHANGED <<drvFixed, out, res, checked>>

\* The optimizer returns.  fmin returns the vertex with the least value, and
\* reports success only if it is a finite one: a point where objective_func
\* did not return inf.  fmin_ncg is called without full_output, and the
\* driver unpacks six values from what it returns: res.full tells whether
\* the optimizer returned those six or the point alone.  The optimizer's
\* last call is over.
OptimizerReturns ==
    /\ prog \in Drivers
    /\ pc = "optimizing"
    /\ \E x \in TrialPoints, wf \in WarnFlags, full \in BOOLEAN :
          /\ prog = "fit_position_sky" /\ wf = 0 => StrictlyInside(x)
          /\ prog # "fit_position_sky_sn_multi" => full
          /\ res' = [x |-> x, warnflag |-> wf, full |-> full]
    /\ pc' = "returned"
    /\ called' = "none" /\ trial' = None /\ evalpos' = {}
    /\ UNCHANGED <<drvFixed, out, ntrials, checked>>

\* _check_result(d['warnflag'], d['task']) at 292, 340 and 795
CheckResult ==
    /\ prog \in GalaxyDrivers \cup {"fit_position_sky_sn_multi_old"}
    /\ pc = "returned"
    /\ checked' = TRUE
    /\ IF check_result(res.warnflag) = "ok"
       THEN pc' = "checked" /\ out' = out
       ELSE pc' = "raised" /\ out' = [status |-> "RuntimeError"]
    /\ UNCHANGED <<drvFixed, called, trial, ntrials, evalpos, res>>

\* _check_result_fmin(warnflag) at 416
CheckResultFmin ==
    /\ prog = "fit_position_sky"
    /\ pc = "returned"
    /\ checked' = TRUE
    /\ IF check_result(res.warnflag) = "ok"
       THEN pc' = "checked" /\ out' = out
       ELSE pc' = "raised" /\ out' = [status |-> "RuntimeError"]
    /\ UNCHANGED <<drvFixed, called, trial, ntrials, evalpos, res>>

\* 699-704 of fit_position_sky_sn_multi: the six names are unpacked, the
\* call of _check_result is commented out, the result is logged.  When the
\* optimizer returned the point alone, the unpacking at 699 fails unless the
\* point has six entries, and then fallctrs is one number and the reshape at
\* 704 fails.
UnpackResult ==
    /\ prog = "fit_position_sky_sn_multi"
    /\ pc = "returned"
    /\ IF res.full
       THEN pc' = "checked" /\ out' = out
       ELSE /\ pc' = "raised"
            /\ out' = [status |-> "ValueError",
                       line |-> IF 2 * (nepochs + 1) = 6 THEN 704 ELSE 699]
    /\ UNCHANGED <<drvFixed, called, trial, ntrials, evalpos, res, checked>>

\* The rest of the driver: the last evaluation of the forward model at the
\* returned point, and the return.
FinalEvaluation ==
    /\ prog \in Drivers
    /\ pc = "checked"
    /\ evalpos' = FinalEvals(res.x)
    /\ out' = DriverResult(res.x)
    /\ pc' = "done"
    /\ UNCHANGED <<drvFixed, called, trial, ntrials, res, checked>>

NextDrivers ==
    \/ OptimizerCalls
    \/ OptimizerReturns
    \/ CheckResult
    \/ CheckResultFmin
    \/ UnpackResult
    \/ FinalEvaluation

SpecDrivers == InitDrivers /\ [][NextDrivers]_vars

C2_ForwardModelInsideBox ==
    prog \in PositionDrivers =>
        \A e \in evalpos :
            /\ minbound(2 * e[1]) <= e[2] /\ e[2] <= maxbound(2 * e[1])
            /\ minbound(2 * e[1] + 1) <= e[3] /\ e[3] <= maxbound(2 * e[1] + 1)

----------------------------------------------------------------------------
(* fit_position_sky.objective_func (398-412) as the optimizer calls it:    *)
(* the box test on the trial position, then the profiled chi-square.  The  *)
(* scene atm.evaluate_galaxy returns at the trial position is galmodel.    *)

\* the scenes the forward model returns here
GalScenes == {ZeroCube, [w \in Waves |-> [p \in Pix |-> IF p = 1 THEN 1 ELSE 0]]}

\* objective_func(ctr): what it returns, and whether it called
\* atm.evaluate_galaxy
objective_func_ctr(x, gal, d, wt) ==
    IF ~StrictlyInside(x)
    THEN [status |-> "ok", val |-> Inf, evaluated |-> FALSE]
    ELSE LET o == objective_func(gal, d, wt)
         IN  IF o.status # "ok" THEN [status |-> o.status, evaluated |-> TRUE]
             ELSE [status |-> "ok", val |-> o.val, evaluated |-> TRUE]

InitObjectiveFunc ==
    /\ prog = "fit_position_sky"
    /\ nepochs = 1 /\ allctrs = <<>> /\ chisqtab = <<>>
    /\ \E c \in Ctr0Vals : ctrs0 = [k \in CtrIdx |-> c]
    /\ yxabs \in YXBounds \X YXBounds
    /\ pc = "objective_func" /\ called = "none" /\ trial = None /\ ntrials = 0
    /\ evalpos = {} /\ res = None /\ checked = FALSE
    /\ data \in Cubes(DataVals)
    /\ weight \in Cubes(0..MaxWeight)
    /\ galmodel \in GalScenes
    /\ snmodel = ZeroCube
    /\ out = NoOut /\ altw = 0 /\ out2 = NoOut
    /\ IdleGuess /\ IdleClip /\ IdleObj

\* fmin calls objective_func(ctr)
CallObjectiveFuncCtr ==
    /\ prog = "fit_position_sky"
    /\ pc = "objective_func"
    /\ \E x \in Points :
          /\ trial' = x
          /\ out' = objective_func_ctr(x, galmodel, data, weight)
          /\ evalpos' = IF StrictlyInside(x) THEN {<<0, x[0], x[1]>>} ELSE {}
    /\ called' = "objective_func"
    /\ ntrials' = ntrials + 1
    /\ pc' = "objective_func_returned"
    /\ UNCHANGED <<drvFixed, res, checked>>

NextObjectiveFunc == CallObjectiveFuncCtr

SpecObjectiveFunc == InitObjectiveFunc /\ [][NextObjectiveFunc]_vars

\* the weighted mean of data - gal over slice w
ProfiledSky(w) ==
    Rat(SumPix([p \in Pix |-> weight[w][p] * Resid(w, p)]), SumPix(weight[w]))

\* Sum of weight * (data - gal - sky)^2 over the cube
ProfiledChisq ==
    RatSumCube([w \in Waves |-> [p \in Pix |->
        LET e == RatSub(RatInt(Resid(w, p)), ProfiledSky(w))
        IN  RatMul(RatInt(weight[w][p]), RatMul(e, e))]])

\* C11: a trial that is not strictly inside the box gets +infinity without a
\* call of atm.evaluate_galaxy; a trial strictly inside the box gets the
\* finite profiled chi-square Sum weight * (data - gal - sky)^2.
C11_ObjectiveInfOutsideBox ==
    (prog = "fit_position_sky" /\ pc = "objective_func_returned") =>
        /\ ~StrictlyInside(trial) =>
              (out.status = "ok" /\ out.val = Inf /\ ~out.evaluated /\ evalpos = {})
        /\ StrictlyInside(trial) =>
              /\ out.status = "ok"
              /\ out.evaluated
              /\ out.val # Inf
              /\ out.val = ProfiledChisq

\* The part of C11 that holds: trials outside the box, and trials inside
\* it for cubes in which every slice carries weight.
C11_HoldsWithWeight ==
    (prog = "fit_position_sky" /\ pc = "objective_func_returned") =>
        /\ ~StrictlyInside(trial) =>
              (out.status = "ok" /\ out.val = Inf /\ ~out.evaluated /\ evalpos = {})
        /\ (StrictlyInside(trial) /\ \A w \in Waves : ~ZeroSlice(w)) =>
              /\ out.status = "ok"
              /\ out.evaluated
              /\ out.val # Inf
              /\ out.val = ProfiledChisq

\* C12: when the optimizer of fit_position_sky_sn_multi ended with success,
\* the call returns (fctrs, fsnctr, skys, sne): fctrs[i] is entries 2i, 2i+1
\* of the optimizer's final vector, fsnctr its last two entries, skys[i] and
\* sne[i] come from determine_sky_and_sn evaluated at (fctrs[i], fsnctr), and
\* the initial vector reshaped and raveled again is the initial vector.
C12_ReturnsReshapedOptimum ==
    (/\ prog = "fit_position_sky_sn_multi"
     /\ pc \in {"raised", "done"}
     /\ res.warnflag = 0) =>
        /\ out.status = "ok"
        /\ DOMAIN out.fctrs = Epochs(nepochs)
        /\ \A i \in Epochs(nepochs) :
              /\ out.fctrs[i] = <<res.x[2 * i], res.x[2 * i + 1]>>
              /\ out.skys[i] = SkySnAt("sky", i, out.fctrs[i], out.fsnctr)
              /\ out.sne[i] = SkySnAt("sn", i, out.fctrs[i], out.fsnctr)
        /\ out.fsnctr = <<res.x[2 * nepochs], res.x[2 * nepochs + 1]>>
        /\ ravel(reshape(ctrs0)) = ctrs0
        /\ evalpos = {<<i, out.fctrs[i][1], out.fctrs[i][2]>> : i \in Epochs(nepochs)}

\* The same for the calls in which the optimizer handed back the six values
\* that line 699 unpacks.
C12_HoldsWithFullOutput ==
    (/\ prog = "fit_position_sky_sn_multi"
     /\ pc \in {"raised", "done"}
     /\ res.warnflag = 0
     /\ res.full) =>
        /\ out.status = "ok"
        /\ \A i \in Epochs(nepochs) :
              /\ out.fctrs[i] = <<res.x[2 * i], res.x[2 * i + 1]>>
              /\ out.skys[i] = SkySnAt("sky", i, out.fctrs[i], out.fsnctr)
              /\ out.sne[i] = SkySnAt("sn", i, out.fctrs[i], out.fsnctr)
        /\ out.fsnctr = <<res.x[2 * nepochs], res.x[2 * nepochs + 1]>>
        /\ ravel(reshape(ctrs0)) = ctrs0

C19_HoldsWhenConstrained ==
    (/\ prog \in {"fit_position_sky", "fit_position_sky_sn_multi_old"}
     /\ pc = "done"
     /\ out.status = "ok") =>
        InBounds(res.x)

----------------------------------------------------------------------------
(* _check_result (15-24) and _check_result_fmin (27-35).  An error message *)
(* is its format string together with the values formatted into it.        *)

Checkers == {"_check_result", "_check_result_fmin"}

\* the warnflags handed to a checker, and d['task'] of fmin_l_bfgs_b
MaxWarnflag == 4
CheckedFlags == (-2)..MaxWarnflag
Tasks ==
    {"CONVERGENCE: NORM_OF_PROJECTED_GRADIENT_<=_PGTOL",
     "CONVERGENCE: REL_REDUCTION_OF_F_<=_FACTR*EPSMCH",
     "STOP: TOTAL NO. of ITERATIONS REACHED LIMIT",
     "STOP: TOTAL NO. of f AND g EVALUATIONS EXCEEDS LIMIT",
     "ABNORMAL_TERMINATION_IN_LNSRCH"}

Returned == [status |-> "returned"]
RuntimeError(text, strs, ints) ==
    [status |-> "RuntimeError", text |-> text, strs |-> strs, ints |-> ints]

\* _check_result(warnflag, msg)
check_result_msg(warnflag, msg) ==
    IF warnflag = 0 THEN Returned
    ELSE IF warnflag = 1
    THEN RuntimeError("too many function calls or iterations in fmin_l_bfgs_b()",
                      <<>>, <<>>)
    ELSE IF warnflag = 2
    THEN RuntimeError("fmin_l_bfgs_b() exited with warnflag=2: %s", <<msg>>, <<>>)
    ELSE RuntimeError("unknown warnflag: %s", <<>>, <<warnflag>>)

\* _check_result_fmin(warnflag)
check_result_fmin(warnflag) ==
    IF warnflag = 0 THEN Returned
    ELSE IF warnflag = 1
    THEN RuntimeError("maximum number of function calls reached in fmin", <<>>, <<>>)
    ELSE IF warnflag = 2
    THEN RuntimeError("maximum number of iterations reached in fmin", <<>>, <<>>)
    ELSE RuntimeError("unknown warnflag: %s", <<>>, <<warnflag>>)

InitCheckers ==
    /\ prog \in Checkers
    /\ res \in [warnflag : CheckedFlags, task : Tasks]
    /\ pc = "checker"
    /\ out = NoOut /\ altw = 0 /\ out2 = NoOut
    /\ data = ZeroCube /\ weight = ZeroCube
    /\ galmodel = ZeroCube /\ snmodel = ZeroCube
    /\ ctrs0 = <<>> /\ yxabs = <<>> /\ called = "none" /\ trial = None
    /\ ntrials = 0 /\ evalpos = {} /\ checked = FALSE
    /\ IdlePssm /\ IdleGuess /\ IdleClip /\ IdleObj

\* _check_result(d['warnflag'], d['task'])
CallCheckResult ==
    /\ prog = "_check_result"
    /\ pc = "checker"
    /\ out' = check_result_msg(res.warnflag, res.task)
    /\ pc' = "checker_done"
    /\ checked' = TRUE
    /\ UNCHANGED <<drvFixed, called, trial, ntrials, evalpos, res>>

\* _check_result_fmin(warnflag); fmin hands back no diagnostic text
CallCheckResultFmin ==
    /\ prog = "_check_result_fmin"
    /\ pc = "checker"
    /\ out' = check_result_fmin(res.warnflag)
    /\ pc' = "checker_done"
    /\ checked' = TRUE
    /\ UNCHANGED <<drvFixed, called, trial, ntrials, evalpos, res>>

NextCheckers == CallCheckResult \/ CallCheckResultFmin

SpecCheckers == InitCheckers /\ [][NextCheckers]_vars

\* the message carries the optimizer's own diagnostic string
CarriesDiagnostic(o, task) == \E k \in DOMAIN o.strs : o.strs[k] = task

\* C13: code 0 returns without raising, every other code raises
\* RuntimeError, and the message of every error raised carries the
\* optimizer's diagnostic string.
C13_CheckersClassify ==
    (prog \in Checkers /\ pc = "checker_done") =>
        /\ res.warnflag = 0 => out = Returned
        /\ res.warnflag # 0 =>
              /\ out.status = "RuntimeError"
              /\ CarriesDiagnostic(out, res.task)

\* The classification alone.
C13_ClassificationHolds ==
    (prog \in Checkers /\ pc = "checker_done") =>
        /\ res.warnflag = 0 => out = Returned
        /\ res.warnflag # 0 => out.status = "RuntimeError"
        /\ res.warnflag \notin {0, 1, 2} =>
              (out.text = "unknown warnflag: %s" /\ out.ints = <<res.warnflag>>)

----------------------------------------------------------------------------
(* The galaxy objectives: chisq_galaxy_single (208-218),                   *)
(* chisq_galaxy_sky_single (221-241), chisq_galaxy_sky_multi (244-256) and *)
(* the objective closures of fit_galaxy_single (277-287) and               *)
(* fit_galaxy_sky_multi (321-335).  The forward model of an epoch is       *)
(* opaque; here atm.evaluate_galaxy scales the galaxy by the epoch's       *)
(* factor atms[i] and atm.gradient_helper is its adjoint.  The             *)
(* regularization callable is opaque too: it hands back a value and a      *)
(* gradient array, which is either an array it keeps or a copy of it.      *)

GalaxyObjectives ==
    {"chisq_galaxy_single", "chisq_galaxy_sky_single", "chisq_galaxy_sky_multi",
     "fit_galaxy_single.objective", "fit_galaxy_sky_multi.objective"}
MultiEpochObjectives == {"chisq_galaxy_sky_multi", "fit_galaxy_sky_multi.objective"}

MaxCalls == 2
AtmVals == {1, 2}
OneCube == [w \in Waves |-> [p \in Pix |-> 1]]
ObjDataCubes == {OneCube, [w \in Waves |-> [p \in Pix |-> IF w = 1 /\ p = 1 THEN 1 ELSE 0]]}
ObjWeightCubes ==
    {OneCube,
     [w \in Waves |-> [p \in Pix |-> IF w = 1 /\ p = 2 THEN 0 ELSE 1]],
     [w \in Waves |-> [p \in Pix |-> IF w = 2 THEN 0 ELSE 1]]}
PenaltyVals == {0, 1}
PenaltyGrads == {ZeroCube, OneCube}

\* atm.evaluate_galaxy(galaxy, data.shape[1:3], ctr)
evaluate_galaxy(atm, gal) == [w \in Waves |-> [p \in Pix |-> atm * gal[w][p]]]

\* atm.gradient_helper(x, data.shape[1:3], ctr)
gradient_helper(atm, x) == [w \in Waves |-> [p \in Pix |-> RatMul(RatInt(atm), x[w][p])]]

RatCube(c) == [w \in Waves |-> [p \in Pix |-> RatInt(c[w][p])]]
RatCubeAdd(a, b) == [w \in Waves |-> [p \in Pix |-> RatAdd(a[w][p], b[w][p])]]

\* chisq_galaxy_single(galaxy, data, weight, ctr, atm)
chisq_galaxy_single(gal, d, wt, atm) ==
    LET scene == evaluate_galaxy(atm, gal)
        r == Residual(d, scene)
        wr == [w \in Waves |-> [p \in Pix |-> wt[w][p] * r[w][p]]]
        val == SumOver([w \in Waves |-> SumPix([p \in Pix |-> wr[w][p] * r[w][p]])], Waves)
    IN  [status |-> "ok",
         val |-> RatInt(val),
         grad |-> gradient_helper(atm, [w \in Waves |-> [p \in Pix |-> RatInt(-2 * wr[w][p])]])]

\* chisq_galaxy_sky_single(galaxy, data, weight, ctr, atm)
chisq_galaxy_sky_single_atm(gal, d, wt, atm) ==
    LET c == chisq_galaxy_sky_single(evaluate_galaxy(atm, gal), d, wt)
    IN  IF c.status # "ok" THEN [status |-> c.status]
        ELSE [status |-> "ok", val |-> c.val, grad |-> gradient_helper(atm, c.grad)]

\* the subtraction done in place, in the data cube
AfterResidual_inplace(d, atm, gal) == Residual(d, evaluate_galaxy(atm, gal))

\* data after "r = data - scene": the subtraction makes a new array for r,
\* and the later "r -= sky[:, None, None]" writes that array
AfterResidual(d, atm, gal) == d

\* chisq_galaxy_sky_multi: val and grad after the first n epochs of the loop
RECURSIVE MultiLoop(_)
MultiLoop(n) ==
    IF n = 0 THEN [status |-> "ok", val |-> RatInt(0), grad |-> RatCube(ZeroCube)]
    ELSE LET before == MultiLoop(n - 1)
             i == n - 1
             e == chisq_galaxy_sky_single_atm(galaxy, datas[i], weights[i], atms[i])
         IN  IF before.status # "ok" THEN before
             ELSE IF e.status # "ok" THEN [status |-> e.status]
             ELSE [status |-> "ok",
                   val |-> RatAdd(before.val, e.val),
                   grad |-> RatCubeAdd(before.grad, e.grad)]

chisq_galaxy_sky_multi == MultiLoop(nepochs)

\* the epochs the loop of chisq_galaxy_sky_multi gets to: an exception in
\* one epoch ends the call
EpochsStarted == {i \in Epochs(nepochs) : MultiLoop(i).status = "ok"}

\* the data cubes after the objectives computed their residuals
DatasAfter(started) ==
    [i \in Epochs(nepochs) |->
        IF i \in started THEN AfterResidual(datas[i], atms[i], galaxy) ELSE datas[i]]

\* "rgrad *= nepochs" without the scaling
PenaltyScale_one == IF nepochs = 0 THEN 0 ELSE 1

\* rval *= nepochs; rgrad *= nepochs
PenaltyScale == nepochs

ScaledCube(k, c) == [w \in Waves |-> [p \in Pix |-> k * c[w][p]]]

\* objective(galparams) of fit_galaxy_single
objective_single ==
    LET c == chisq_galaxy_single(galaxy, datas[0], weights[0], atms[0])
    IN  [status |-> "ok",
         val |-> RatAdd(c.val, RatInt(regpenalty.val)),
         grad |-> RatCubeAdd(c.grad, RatCube(regpenalty.grad))]

\* objective(galparams) of fit_galaxy_sky_multi
objective_multi ==
    LET c == chisq_galaxy_sky_multi
        rval == PenaltyScale * regpenalty.val
        rgrad == ScaledCube(PenaltyScale, regpenalty.grad)
    IN  IF c.status # "ok" THEN [status |-> c.status]
        ELSE [status |-> "ok",
              val |-> RatAdd(c.val, RatInt(rval)),
              grad |-> RatCubeAdd(c.grad, RatCube(rgrad))]

\* The regularization callable after objective(galparams) of
\* fit_galaxy_sky_multi: "rgrad *= nepochs" writes the array it handed back.
PenaltyAfterMulti ==
    IF chisq_galaxy_sky_multi.status = "ok" /\ regpenalty.retains
    THEN [regpenalty EXCEPT !.grad = ScaledCube(PenaltyScale, regpenalty.grad)]
    ELSE regpenalty

InitGalaxyObjective ==
    /\ prog \in GalaxyObjectives
    /\ nepochs \in (IF prog \in MultiEpochObjectives THEN 0..MaxEpochs ELSE {1})
    /\ allctrs = <<>> /\ chisqtab = <<>>
    /\ galaxy \in GalScenes
    /\ datas \in [Epochs(nepochs) -> ObjDataCubes]
    /\ weights \in [Epochs(nepochs) -> ObjWeightCubes]
    /\ atms \in [Epochs(nepochs) -> AtmVals]
    /\ regpenalty \in [val : PenaltyVals, grad : PenaltyGrads, retains : BOOLEAN]
    /\ ncalls = 0
    /\ data = ZeroCube /\ weight = ZeroCube
    /\ galmodel = ZeroCube /\ snmodel = ZeroCube
    /\ out = NoOut /\ altw = 0 /\ out2 = NoOut
    /\ IdleGuess /\ IdleClip /\ IdleDrv

objFixed == <<prog, cubeVars, altw, pssmVars, npix, clipVars, drvVars, atms>>

EvalChisqGalaxySingle ==
    /\ prog = "chisq_galaxy_single"
    /\ ncalls < MaxCalls
    /\ out' = chisq_galaxy_single(galaxy, datas[0], weights[0], atms[0])
    /\ out2' = out
    /\ datas' = DatasAfter({0})
    /\ ncalls' = ncalls + 1
    /\ UNCHANGED <<objFixed, galaxy, weights, regpenalty>>

EvalChisqGalaxySkySingle ==
    /\ prog = "chisq_galaxy_sky_single"
    /\ ncalls < MaxCalls
    /\ out' = chisq_galaxy_sky_single_atm(galaxy, datas[0], weights[0], atms[0])
    /\ out2' = out
    /\ datas' = DatasAfter({0})
    /\ ncalls' = ncalls + 1
    /\ UNCHANGED <<objFixed, galaxy, weights, regpenalty>>

EvalChisqGalaxySkyMulti ==
    /\ prog = "chisq_galaxy_sky_multi"
    /\ ncalls < MaxCalls
    /\ out' = chisq_galaxy_sky_multi
    /\ out2' = out
    /\ datas' = DatasAfter(EpochsStarted)
    /\ ncalls' = ncalls + 1
    /\ UNCHANGED <<objFixed, galaxy, weights, regpenalty>>

EvalObjectiveSingle ==
    /\ prog = "fit_galaxy_single.objective"
    /\ ncalls < MaxCalls
    /\ out' = objective_single
    /\ out2' = out
    /\ datas' = DatasAfter({0})
    /\ ncalls' = ncalls + 1
    /\ UNCHANGED <<objFixed, galaxy, weights, regpenalty>>

EvalObjectiveMulti ==
    /\ prog = "fit_galaxy_sky_multi.objective"
    /\ ncalls < MaxCalls
    /\ out' = objective_multi
    /\ out2' = out
    /\ datas' = DatasAfter(EpochsStarted)
    /\ regpenalty' = PenaltyAfterMulti
    /\ ncalls' = ncalls + 1
    /\ UNCHANGED <<objFixed, galaxy, weights>>

NextGalaxyObjective ==
    \/ EvalChisqGalaxySingle
    \/ EvalChisqGalaxySkySingle
    \/ EvalChisqGalaxySkyMulti
    \/ EvalObjectiveSingle
    \/ EvalObjectiveMulti

SpecGalaxyObjective == InitGalaxyObjective /\ [][NextGalaxyObjective]_vars

C15_ObjectiveIsPure ==
    (prog \in GalaxyObjectives /\ ncalls >= 2) => out = out2

\* The same for the objectives that do not scale the penalty in place.
C15_HoldsWithoutScaling ==
    (prog \in GalaxyObjectives \ {"fit_galaxy_sky_multi.objective"} /\ ncalls >= 2) =>
        out = out2

\* chisq_galaxy_sky_single of epoch i
EpochChisq(i) == chisq_galaxy_sky_single_atm(galaxy, datas[i], weights[i], atms[i])
AllEpochsOk == \A i \in Epochs(nepochs) : EpochChisq(i).status = "ok"
SumOfEpochVals == RatSumOver([i \in Epochs(nepochs) |-> EpochChisq(i).val], Epochs(nepochs))
SumOfEpochGrads ==
    [w \in Waves |-> [p \in Pix |->
        RatSumOver([i \in Epochs(nepochs) |-> EpochChisq(i).grad[w][p]], Epochs(nepochs))]]

\* what a call that is a step of the galaxy objectives returns when every
\* epoch's chi-square can be computed
AdditiveStep ==
    /\ (prog = "chisq_galaxy_sky_multi" /\ AllEpochsOk) =>
          /\ out'.status = "ok"
          /\ out'.val = SumOfEpochVals
          /\ out'.grad = SumOfEpochGrads
    /\ (prog = "fit_galaxy_sky_multi.objective" /\ AllEpochsOk) =>
          /\ out'.status = "ok"
          /\ out'.val = RatAdd(SumOfEpochVals, RatInt(nepochs * regpenalty.val))
          /\ \A w \in Waves, p \in Pix :
                out'.grad[w][p] = RatAdd(SumOfEpochGrads[w][p],
                                         RatInt(nepochs * regpenalty.grad[w][p]))
    /\ prog = "fit_galaxy_single.objective" =>
          LET c == chisq_galaxy_single(galaxy, datas[0], weights[0], atms[0])
          IN  /\ out'.status = "ok"
              /\ out'.val = RatAdd(c.val, RatInt(regpenalty.val))
              /\ \A w \in Waves, p \in Pix :
                    out'.grad[w][p] = RatAdd(c.grad[w][p], RatInt(regpenalty.grad[w][p]))

\* C18: chisq_galaxy_sky_multi returns the sum over the epochs of the values
\* and of the gradients of chisq_galaxy_sky_single (0 and zeros for no
\* epochs); the objective of fit_galaxy_sky_multi adds nepochs times the
\* penalty's value and gradient to them, the objective of fit_galaxy_single
\* adds the penalty as it is.
C18_AdditiveOverEpochs == [][AdditiveStep]_vars

C18_Witness ==
    /\ prog = "fit_galaxy_sky_multi.objective"
    /\ nepochs >= 2
    /\ ncalls >= 1
    /\ out.status = "ok"
    /\ regpenalty.val = 1
    /\ \E w \in Waves, p \in Pix : regpenalty.grad[w][p] # 0
    /\ atms[0] # atms[1]
    /\ \E i \in Epochs(nepochs) : EpochChisq(i).val # RatInt(0)
    /\ galaxy # ZeroCube

----------------------------------------------------------------------------
(* The objectives of the multi-epoch position fit:                         *)
(* chisq_position_sky_sn_multi (425-478), chisq_pssm (491-504) and         *)
(* chisq_pssm_grad (506-540), called on the same arguments.                *)

PssmFunctions == {"chisq_pssm", "chisq_pssm_grad", "chisq_position_sky_sn_multi"}

\* spacing of the entries of allctrs, in units of 0.001 spaxel
CtrSpacing == 100

\* The points where the two gradients sample an epoch, as offsets
\* <<dy, dx, dsny, dsnx>> in units of the step.
GradStencil ==
    {<<0, 0, 0, 0>>, <<1, 0, 0, 0>>, <<0, 1, 0, 0>>, <<0, 0, 1, 0>>, <<0, 0, 0, 1>>}

\* An epoch's chi-square for the gradients: the step is EPS of chisq_pssm_grad
\* (511) or EPS of chisq_position_sky_sn_multi (432); with raises, the point
\* bump is one where determine_sky_and_sn finds a null denom with weight and
\* raises ValueError (177-179).
PssmTables ==
    {t \in [base : 0..MaxChisq, bump : GradStencil \cup {NoBump},
            step : {EPS, EPS_position}, raises : BOOLEAN] :
        /\ t.bump = NoBump => ~t.raises
        /\ t.bump \in {NoBump, <<0, 0, 0, 0>>} => t.step = EPS}

\* chisq_nonref_epoch(...) as a call: its value, or the ValueError of
\* determine_sky_and_sn passing through it.
call_chisq_nonref_epoch(i, y, x, sny, snx) ==
    LET t == chisqtab[i]
        at == <<y - allctrs[2 * i], x - allctrs[2 * i + 1],
                sny - allctrs[SnIndex(nepochs)], snx - allctrs[SnIndex(nepochs) + 1]>>
    IN  IF t.raises /\ at = [k \in 1..4 |-> t.step * t.bump[k]]
        THEN [status |-> "ValueError"]
        ELSE [status |-> "ok", chisq |-> chisq_nonref_epoch(i, y, x, sny, snx)]

\* chisq += chisq_nonref_epoch(...): the total after epochs 0 .. i-1
RECURSIVE PssmLoop(_, _)
PssmLoop(ac, i) ==
    IF i = 0 THEN [status |-> "ok", chisq |-> 0]
    ELSE LET before == PssmLoop(ac, i - 1)
             n == 2 * nepochs
             c == call_chisq_nonref_epoch(i - 1, ac[2 * (i - 1)], ac[2 * (i - 1) + 1],
                                          ac[n], ac[n + 1])
         IN  IF before.status # "ok" THEN before
             ELSE IF c.status # "ok" THEN c
             ELSE [status |-> "ok", chisq |-> before.chisq + c.chisq]

chisq_pssm(ac) == PssmLoop(ac, nepochs)

\* grad[2*nepochs] = (chisq2 - chisq) / EPS, the entry overwritten
AddSnGrad_assign(g, term) == term

\* grad[2*nepochs] += (chisq2 - chisq) / EPS
AddSnGrad(g, term) == RatAdd(g, term)

\* grad = np.zeros_like(allctrs)
GradZeros == [k \in 0..(2 * nepochs + 1) |-> RatInt(0)]

\* One pass of the loop of chisq_pssm_grad: the gradient g after epoch i.
PssmGradEpoch(ac, g, i) ==
    LET n == 2 * nepochs
        yctr == ac[2 * i]
        xctr == ac[2 * i + 1]
        snyctr == ac[n]
        snxctr == ac[n + 1]
        c0 == call_chisq_nonref_epoch(i, yctr, xctr, snyctr, snxctr)
        cy == call_chisq_nonref_epoch(i, yctr + EPS, xctr, snyctr, snxctr)
        cx == call_chisq_nonref_epoch(i, yctr, xctr + EPS, snyctr, snxctr)
        cz == call_chisq_nonref_epoch(i, yctr, xctr, snyctr + EPS, snxctr)
        cw == call_chisq_nonref_epoch(i, yctr, xctr, snyctr, snxctr + EPS)
    IN  IF \E c \in {c0, cy, cx, cz, cw} : c.status # "ok"
        THEN [status |-> "ValueError"]
        ELSE [status |-> "ok",
              grad |-> [g EXCEPT
                          ![2 * i] = RatAdd(@, Rat(cy.chisq - c0.chisq, EPS)),
                          ![2 * i + 1] = RatAdd(@, Rat(cx.chisq - c0.chisq, EPS)),
                          ![n] = AddSnGrad(@, Rat(cz.chisq - c0.chisq, EPS)),
                          ![n + 1] = AddSnGrad(@, Rat(cw.chisq - c0.chisq, EPS))]]

RECURSIVE PssmGradLoop(_, _)
PssmGradLoop(ac, i) ==
    IF i = 0 THEN [status |-> "ok", grad |-> GradZeros]
    ELSE LET before == PssmGradLoop(ac, i - 1)
         IN  IF before.status # "ok" THEN before
             ELSE PssmGradEpoch(ac, before.grad, i - 1)

chisq_pssm_grad(ac) == PssmGradLoop(ac, nepochs)

\* chisq = epoch_chisq, the total overwritten
AddEpochChisq_last(chisq, epoch_chisq) == epoch_chisq

\* chisq += epoch_chisq
AddEpochChisq(chisq, epoch_chisq) == chisq + epoch_chisq

\* gal, psf, determine_sky_and_sn, scene and np.sum(weight * (data - scene)**2)
\* for epoch i with the data at ctr and the point source at snctr: the chain
\* of calls chisq_nonref_epoch makes.
epoch_chisq_at(i, ctr, snctr) ==
    call_chisq_nonref_epoch(i, ctr[1], ctr[2], snctr[1], snctr[2])

\* One pass of the loop of chisq_position_sky_sn_multi over the reshaped
\* allctrs a: the total and the (nepochs+1, 2) gradient after epoch i.
PositionSkySnEpoch(a, acc, i) ==
    LET snctr == a[nepochs]
        ctr == a[i]
        c0 == epoch_chisq_at(i, ctr, snctr)
        z1 == epoch_chisq_at(i, ctr, <<snctr[1] + EPS_position, snctr[2]>>)
        z2 == epoch_chisq_at(i, ctr, <<snctr[1], snctr[2] + EPS_position>>)
        y1 == epoch_chisq_at(i, <<ctr[1] + EPS_position, ctr[2]>>, snctr)
        y2 == epoch_chisq_at(i, <<ctr[1], ctr[2] + EPS_position>>, snctr)
    IN  IF \E c \in {c0, z1, z2, y1, y2} : c.status # "ok"
        THEN [status |-> "ValueError"]
        ELSE [status |-> "ok",
              chisq |-> AddEpochChisq(acc.chisq, c0.chisq),
              grad |-> [acc.grad EXCEPT
                          ![nepochs] =
                              <<RatAdd(@[1], Rat(z1.chisq - c0.chisq, EPS_position)),
                                RatAdd(@[2], Rat(z2.chisq - c0.chisq, EPS_position))>>,
                          ![i] = <<Rat(y1.chisq - c0.chisq, EPS_position),
                                   Rat(y2.chisq - c0.chisq, EPS_position)>>]]

RECURSIVE PositionSkySnLoop(_, _)
PositionSkySnLoop(a, i) ==
    IF i = 0
    THEN [status |-> "ok", chisq |-> 0, grad |-> reshape(GradZeros)]
    ELSE LET before == PositionSkySnLoop(a, i - 1)
         IN  IF before.status # "ok" THEN before
             ELSE PositionSkySnEpoch(a, before, i - 1)

\* return chisq, np.ravel(grad)
chisq_position_sky_sn_multi(ac) ==
    LET r == PositionSkySnLoop(reshape(ac), nepochs)
    IN  IF r.status # "ok" THEN r
        ELSE [status |-> "ok", chisq |-> r.chisq, grad |-> ravel(r.grad)]

InitPssmObjective ==
    /\ prog = "position objectives"
    /\ nepochs \in 1..MaxEpochs
    /\ allctrs = [k \in 0..(2 * nepochs + 1) |-> CtrSpacing * (k + 1)]
    /\ chisqtab \in [Epochs(nepochs) -> PssmTables]
    /\ data = ZeroCube /\ weight = ZeroCube
    /\ galmodel = ZeroCube /\ snmodel = ZeroCube
    /\ out = [f \in PssmFunctions |-> NoOut]
    /\ altw = 0 /\ out2 = NoOut
    /\ IdleGuess /\ IdleClip /\ IdleDrv /\ IdleObj

pssmFixed == <<prog, cubeVars, altw, out2, pssmVars, npix, clipVars, drvVars, objVars>>

CallChisqPssm ==
    /\ prog = "position objectives"
    /\ out["chisq_pssm"] = NoOut
    /\ out' = [out EXCEPT !["chisq_pssm"] = chisq_pssm(allctrs)]
    /\ UNCHANGED pssmFixed

CallChisqPssmGrad ==
    /\ prog = "position objectives"
    /\ out["chisq_pssm_grad"] = NoOut
    /\ out' = [out EXCEPT !["chisq_pssm_grad"] = chisq_pssm_grad(allctrs)]
    /\ UNCHANGED pssmFixed

CallChisqPositionSkySnMulti ==
    /\ prog = "position objectives"
    /\ out["chisq_position_sky_sn_multi"] = NoOut
    /\ out' = [out EXCEPT !["chisq_position_sky_sn_multi"] =
                              chisq_position_sky_sn_multi(allctrs)]
    /\ UNCHANGED pssmFixed

NextPssmObjective ==
    \/ CallChisqPssm
    \/ CallChisqPssmGrad
    \/ CallChisqPositionSkySnMulti

SpecPssmObjective == InitPssmObjective /\ [][NextPssmObjective]_vars

\* the sum over the epochs of chisq_nonref_epoch at the epoch's position and
\* the shared point-source position
SumOfNonrefEpochs ==
    SumOver([i \in Epochs(nepochs) |->
                 chisq_nonref_epoch(i, allctrs[2 * i], allctrs[2 * i + 1],
                                    allctrs[2 * nepochs], allctrs[2 * nepochs + 1])],
            Epochs(nepochs))

\* C16: on the same arguments the chi-square chisq_position_sky_sn_multi
\* returns equals the one chisq_pssm returns, and both equal the sum over the
\* epochs of chisq_nonref_epoch at the epoch's position and the shared
\* point-source position.
C16_SameObjective ==
    (prog = "position objectives") =>
        /\ out["chisq_pssm"].status = "ok" =>
              out["chisq_pssm"].chisq = SumOfNonrefEpochs
        /\ out["chisq_position_sky_sn_multi"].status = "ok" =>
              out["chisq_position_sky_sn_multi"].chisq = SumOfNonrefEpochs
        /\ (/\ out["chisq_pssm"].status = "ok"
            /\ out["chisq_position_sky_sn_multi"].status = "ok") =>
              out["chisq_position_sky_sn_multi"].chisq = out["chisq_pssm"].chisq

C16_Witness ==
    /\ prog = "position objectives"
    /\ nepochs >= 2
    /\ out["chisq_pssm"].status = "ok"
    /\ out["chisq_position_sky_sn_multi"].status = "ok"
    /\ out["chisq_pssm"].chisq >= 3
    /\ \E k \in 0..(2 * nepochs + 1) :
          out["chisq_position_sky_sn_multi"].grad[k] # RatInt(0)

\* the forward difference of epoch i's chisq_nonref_epoch for the offsets
\* (dy, dx, dz, dw), in units of EPS
ForwardDifference(i, dy, dx, dz, dw) ==
    Rat(F(i, dy, dx, dz, dw) - F(i, 0, 0, 0, 0), EPS)

\* C17: entries 2i and 2i+1 of the gradient of chisq_pssm_grad are the forward
\* differences of epoch i's chisq_nonref_epoch in y_i and x_i, and the two
\* point-source entries are the sums over the epochs of the epoch's forward
\* differences in the point-source y and x.
C17_ForwardDifferences ==
    (prog = "position objectives" /\ out["chisq_pssm_grad"].status = "ok") =>
        LET g == out["chisq_pssm_grad"].grad
            n == 2 * nepochs
        IN  /\ DOMAIN g = 0..(n + 1)
            /\ \A i \in Epochs(nepochs) :
                  /\ g[2 * i] = ForwardDifference(i, 1, 0, 0, 0)
                  /\ g[2 * i + 1] = ForwardDifference(i, 0, 1, 0, 0)
            /\ g[n] = RatSumOver([i \in Epochs(nepochs) |->
                                      ForwardDifference(i, 0, 0, 1, 0)],
                                 Epochs(nepochs))
            /\ g[n + 1] = RatSumOver([i \in Epochs(nepochs) |->
                                          ForwardDifference(i, 0, 0, 0, 1)],
                                     Epochs(nepochs))

\* two epochs, one whose chi-square changes with the point-source y and one
\* whose chi-square changes with its own y only
C17_Witness ==
    /\ prog = "position objectives"
    /\ nepochs >= 2
    /\ out["chisq_pssm_grad"].status = "ok"
    /\ ForwardDifference(0, 0, 0, 1, 0) # RatInt(0)
    /\ ForwardDifference(1, 0, 0, 1, 0) = RatInt(0)
    /\ out["chisq_pssm_grad"].grad[2 * nepochs] # RatInt(0)
    /\ out["chisq_pssm_grad"].grad[2] # RatInt(0)
    /\ out["chisq_pssm_grad"].grad[0] = RatInt(0)

=============================================================================
